---- MODULE Spec2Model ----
(***************************************************************************)
(* Control plane of the projector Feed (secondary/projector/feed.go): the  *)
(* gen-server goroutine that owns reqTss/actTss/rollTss, feeders and       *)
(* kvdata, the stream-feedback reconciler (waitOnFeedback) it runs inside  *)
(* a command, and the data-path producers that post on the back channel.   *)
(***************************************************************************)
EXTENDS Integers, Sequences, FiniteSets, TLC

\* ------------------------------------------------------------------ bounds
MaxCmds == 3            \* client commands dequeued in one behaviour
ChanSize == 2           \* config "feedChanSize": largest capacity of backch
MaxReqBuckets == 2      \* timestamps (buckets) listed in one request
MaxVbno == 1            \* partitions are 0..MaxVbno

Buckets == {"b1", "b2"}
AllVbnos == 0..MaxVbno
Opaques == {1, 2}       \* values newOpaque() may return
AnsSeqnos == {1}        \* seqno carried by an upstream answer (rollback seqno)
Uuids == {1, 2}         \* instance (subscriber) ids a request may define
Raddrs == {"localhost:9", "127.0.0.1:9"}    \* endpoint addresses routers use
EndpointTypes == {"dataport"}               \* req.GetEndpointType()

\* A request's subscribers: what GetEvaluators() and GetRouters() return
\* (err or the ids of the map).
Subscribers(evalErr, routerErr, evaluators, routers) ==
    [evalErr |-> evalErr, routerErr |-> routerErr, evaluators |-> evaluators,
     routers |-> routers]

\* a request that defines no instance, and one whose evaluators do not load
NoSubs == Subscribers(FALSE, FALSE, {}, {})

BadSubs == Subscribers(TRUE, FALSE, {}, {})

\* well-formed requests, and one malformed request of each kind: evaluators
\* or routers that do not load, maps of different length, an id with an
\* evaluator and no router
AllSubs ==
    {Subscribers(FALSE, FALSE, ids, ids) : ids \in SUBSET Uuids}
        \cup {BadSubs, Subscribers(FALSE, TRUE, {}, {}),
              Subscribers(FALSE, FALSE, {1}, {}),
              Subscribers(FALSE, FALSE, {1}, {2})}

\* the commands of a feed the clients send
Commands ==
    {"Start", "RestartVbuckets", "RepairEndpoints", "AddBuckets", "AddInstances",
     "ShutdownVbuckets", "DelBuckets", "Shutdown"}

\* The universes explored.  insts: the requests define instances; answers:
\* the upstream answers stream requests and stream ends; trips: sequences of
\* two commands are observed; only: the commands the clients send.
\* Short command sequences with the larger back channel:
ShortWorld ==
    [buckets |-> {"b1"}, vbs |-> {0}, cmds |-> MaxCmds - 1, chan |-> ChanSize,
     insts |-> FALSE, answers |-> TRUE, trips |-> FALSE,
     reqs |-> MaxReqBuckets - 1, only |-> Commands]

\* long command sequences over one partition:
LongWorld ==
    [buckets |-> {"b1"}, vbs |-> {0}, cmds |-> MaxCmds, chan |-> ChanSize - 1,
     insts |-> FALSE, answers |-> TRUE, trips |-> TRUE,
     reqs |-> MaxReqBuckets - 1, only |-> Commands]

\* short command sequences over all partitions, of clients that start, restart
\* and shut down partitions only and whose commands fall on the same opaque:
WideWorld ==
    [buckets |-> {"b1"}, vbs |-> AllVbnos, cmds |-> MaxCmds - 1,
     chan |-> ChanSize - 1, insts |-> FALSE, answers |-> TRUE, trips |-> FALSE,
     reqs |-> MaxReqBuckets - 1,
     only |-> {"Start", "RestartVbuckets", "ShutdownVbuckets"}]

\* short command sequences that define instances, with a silent upstream:
SubsWorld ==
    [buckets |-> {"b1"}, vbs |-> {0}, cmds |-> MaxCmds - 1, chan |-> ChanSize - 1,
     insts |-> TRUE, answers |-> FALSE, trips |-> TRUE,
     reqs |-> MaxReqBuckets - 1, only |-> Commands]

\* short command sequences whose requests list two buckets, with a silent
\* upstream:
PairWorld ==
    [buckets |-> {"b1", "b2"}, vbs |-> {0}, cmds |-> MaxCmds - 1,
     chan |-> ChanSize - 1, insts |-> FALSE, answers |-> FALSE, trips |-> FALSE,
     reqs |-> MaxReqBuckets, only |-> Commands]

\* long command sequences over all partitions, of clients that start and
\* delete buckets only and whose commands fall on the same opaque:
DupWorld ==
    [buckets |-> {"b1"}, vbs |-> AllVbnos, cmds |-> MaxCmds, chan |-> ChanSize - 1,
     insts |-> FALSE, answers |-> TRUE, trips |-> FALSE,
     reqs |-> MaxReqBuckets - 1, only |-> {"Start", "DelBuckets"}]

\* long command sequences that define instances, of clients that start, add
\* and delete buckets only, with a silent upstream:
FreshWorld ==
    [buckets |-> {"b1"}, vbs |-> {0}, cmds |-> MaxCmds, chan |-> ChanSize - 1,
     insts |-> TRUE, answers |-> FALSE, trips |-> TRUE,
     reqs |-> MaxReqBuckets - 1, only |-> {"Start", "AddBuckets", "DelBuckets"}]

Worlds ==
    {LongWorld, WideWorld, ShortWorld, SubsWorld, PairWorld, DupWorld, FreshWorld}

\* the subscribers and the endpoint types the requests of a universe carry;
\* clients of a few commands send well-formed subscribers of at most one
\* instance
SubsOf(w) ==
    IF ~w.insts THEN {NoSubs, BadSubs}
    ELSE IF w.only = Commands THEN AllSubs
    ELSE {NoSubs, Subscribers(FALSE, FALSE, {1}, {1})}

EtypesOf(w) == IF w.insts THEN EndpointTypes ELSE {""}

\* the address lists the RepairEndpoints requests of a universe carry
RepairsOf(w) == IF w.insts THEN SUBSET Raddrs ELSE {{}}

\* the values newOpaque() returns in a universe: with a silent upstream no
\* message carries an opaque
OpaquesOf(w) == IF w.answers /\ w.only = Commands THEN Opaques ELSE {1}

\* mcd.Status values of a stream-request / stream-end response
Statuses == {"SUCCESS", "ROLLBACK", "NOT_MY_VBUCKET", "EINVAL"}

\* ------------------------------------------------------------- TsVbuuid
\* A *TsVbuuid pointer: nil, or the list of (vbno, seqno, vbuuid, start, end).
NilTs == [nil |-> TRUE, es |-> <<>>]

NewTsVbuuid == [nil |-> FALSE, es |-> <<>>]

Entry(vbno, seqno, vbuuid, ss, se) ==
    [vbno |-> vbno, seqno |-> seqno, vbuuid |-> vbuuid, ss |-> ss, se |-> se]

\* the timestamp entry a client request carries for partition p
ReqEntry(p) == Entry(p, 2, 7, 2, 2)

\* the entries of s whose vbno is in vbs (keep) or is not in vbs (~keep)
RECURSIVE SeqFilter(_, _, _)
SeqFilter(s, vbs, keep) ==
    IF s = <<>> THEN <<>>
    ELSE IF (Head(s).vbno \in vbs) = keep
         THEN <<Head(s)>> \o SeqFilter(Tail(s), vbs, keep)
         ELSE SeqFilter(Tail(s), vbs, keep)

\* c.Vbno32to16: []uint32 -> []uint16
Vbno32to16(vbnos) == [i \in DOMAIN vbnos |-> vbnos[i] % 65536]

GetVbnos(ts) == [i \in DOMAIN ts.es |-> ts.es[i].vbno]

SeqToSet(s) == {s[i] : i \in DOMAIN s}

\* the partition set of a timestamp
VbSet(ts) == SeqToSet(GetVbnos(ts))

TsLen(ts) == Len(ts.es)

IsEmpty(ts) == ts.nil \/ ts.es = <<>>

Contains(ts, vbno) == vbno \in VbSet(ts)

\* Append mutates the receiver in place; a nil receiver faults.
TsAppend(ts, vbno, seqno, vbuuid, ss, se) ==
    [nil |-> FALSE, es |-> ts.es \o <<Entry(vbno, seqno, vbuuid, ss, se)>>]

\* Get: the first entry for vbno; err when the receiver is nil or has none
GetOk(ts, vbno) == (~ts.nil) /\ vbno \in VbSet(ts)

GetEntry(ts, vbno) ==
    LET i == CHOOSE j \in DOMAIN ts.es :
                 /\ ts.es[j].vbno = vbno
                 /\ \A k \in DOMAIN ts.es : ts.es[k].vbno = vbno => j <= k
    IN  ts.es[i]

SelectByVbuckets(ts, vbnos) ==
    IF ts.nil THEN ts
    ELSE [nil |-> FALSE, es |-> SeqFilter(ts.es, SeqToSet(vbnos), TRUE)]

FilterByVbuckets(ts, vbnos) ==
    IF ts.nil THEN ts
    ELSE [nil |-> FALSE, es |-> SeqFilter(ts.es, SeqToSet(vbnos), FALSE)]

RECURSIVE SortedInsert(_, _)
SortedInsert(e, s) ==
    IF s = <<>> THEN <<e>>
    ELSE IF e.vbno < Head(s).vbno THEN <<e>> \o s
         ELSE <<Head(s)>> \o SortedInsert(e, Tail(s))

RECURSIVE SortByVbno(_)
SortByVbno(s) ==
    IF s = <<>> THEN <<>> ELSE SortedInsert(Head(s), SortByVbno(Tail(s)))

\* ts.Union(other): every entry of other, then the entries of ts whose vbno
\* other does not have, sorted by vbno; a nil side yields the other side.
Union(ts, other) ==
    IF ts.nil THEN other
    ELSE IF other.nil THEN ts
    ELSE [nil |-> FALSE,
          es  |-> SortByVbno(other.es \o SeqFilter(ts.es, VbSet(other), FALSE))]

\* c.RemoveUint16(item, xs)
RECURSIVE RemoveUint16(_, _)
RemoveUint16(item, xs) ==
    IF xs = <<>> THEN <<>>
    ELSE IF Head(xs) = item THEN RemoveUint16(item, Tail(xs))
         ELSE <<Head(xs)>> \o RemoveUint16(item, Tail(xs))

\* ----------------------------------------------------------------- Go maps
\* A Go map is a function whose DOMAIN is the key set.
HasKey(m, k) == k \in DOMAIN m

MapGetTs(m, k) == IF k \in DOMAIN m THEN m[k] ELSE NilTs

MapSet(m, k, v) == [x \in (DOMAIN m) \cup {k} |-> IF x = k THEN v ELSE m[x]]

MapDelete(m, k) == [x \in (DOMAIN m) \ {k} |-> m[x]]

EmptyMap == [x \in {} |-> NilTs]

MapDeleteAll(m, ks) == [x \in (DOMAIN m) \ ks |-> m[x]]

\* ------------------------------------------------------------------ state
VARIABLES
    reqTss,     \* feed.reqTss : bucket -> *TsVbuuid, outstanding requests
    actTss,     \* feed.actTss : bucket -> *TsVbuuid, active partitions
    rollTss,    \* feed.rollTss: bucket -> *TsVbuuid, rolled-back partitions
    feeders,    \* feed.feeders: bucket -> "open" | "closed"
    kvdata,     \* feed.kvdata : bucket -> "run" | "exited" (worker goroutine)
    engines,    \* feed.engines: bucket -> (uuid -> endpoints of its router)
    endpoints,  \* feed.endpoints: raddr -> endpoint (its identity, the Close
                \* calls it received)
    endpointType, \* feed.endpointType
    backch,     \* feed.backch : messages posted by the data path
    finClosed,  \* feed.finch has been closed
    pc,         \* where the gen-server goroutine is
    ctx,        \* locals of the command being executed
    last,       \* what the step just taken did: a bucket iteration of a
                \* command that finished, or a message the main loop handled
    pending,    \* stream requests / stream ends the upstream has not answered
    kvfin,      \* workers that exited and have not yet posted controlFinKVData
    lastOpaque, \* (bucket, vbno) -> opaque of the last StartVbStreams issued
    ncmds,      \* commands dequeued from reqch so far
    respch,     \* replies in the reply channel of the command last dequeued
    handed,     \* the timestamps of the feed that a TopicResponse handed to a
                \* client points to: <<"act", bucket>>, <<"roll", bucket>>
    trip,       \* the command before the one in hand, when the two make a
                \* sequence under observation (Start then ShutdownVbuckets,
                \* DelBuckets then AddBuckets)
    world       \* the universe of this behaviour: buckets, partitions, commands, feedChanSize

vars == <<reqTss, actTss, rollTss, feeders, kvdata, engines, endpoints,
          endpointType, backch, finClosed, pc, ctx, last, pending, kvfin,
          lastOpaque, ncmds, respch, handed, trip, world>>

feedMaps == <<reqTss, actTss, rollTss, feeders, kvdata>>

downstream == <<engines, endpoints, endpointType>>

ErrNil == "nil"

\* make(chan []interface{}, 1): the reply channel of a client call
RespchSize == 1

NoCtx ==
    [cmd |-> "none", rest |-> <<>>, bucket |-> "", opaque |-> 0, ts |-> NilTs,
     vbnos |-> <<>>, r |-> NilTs, f |-> NilTs, a |-> NilTs, cberr |-> ErrNil,
     timedOut |-> FALSE, held |-> <<>>, lReq |-> NilTs, lAct |-> NilTs,
     lRoll |-> NilTs, err |-> ErrNil]

NoMsg ==
    [kind |-> "none", bucket |-> "", opaque |-> 0, status |-> "", vbno |-> 0,
     vbuuid |-> 0, seqno |-> 0, wrap |-> 0]

NoLast ==
    [cmd |-> "none", bucket |-> "", kind |-> "none", opaque |-> 0, ts |-> NilTs,
     r |-> NilTs, f |-> NilTs, a |-> NilTs, timedOut |-> FALSE, err |-> ErrNil,
     preReq |-> NilTs, preAct |-> NilTs, preRoll |-> NilTs, preKeys |-> FALSE,
     prevErr |-> ErrNil, msg |-> NoMsg]

NoTrip ==
    [cmd |-> "none", buckets |-> {}, req |-> {}, issued |-> {}, ok |-> FALSE,
     preReq |-> {}, preAct |-> {}, same |-> FALSE,
     fresh |-> [x \in {} |-> [u \in {} |-> {}]]]

\* NewFeed: empty maps, open channels, gen-server started
Init ==
    /\ reqTss = EmptyMap
    /\ actTss = EmptyMap
    /\ rollTss = EmptyMap
    /\ feeders = [x \in {} |-> "open"]
    /\ kvdata = [x \in {} |-> "run"]
    /\ engines = [x \in {} |-> [u \in {} |-> {}]]
    /\ endpoints = [x \in {} |-> ""]
    /\ endpointType = ""
    /\ trip = NoTrip
    /\ backch = <<>>
    /\ finClosed = FALSE
    /\ pc = "idle"
    /\ ctx = NoCtx
    /\ last = NoLast
    /\ pending = {}
    /\ kvfin = {}
    /\ lastOpaque = [b \in Buckets |-> [p \in AllVbnos |-> 0]]
    /\ ncmds = 0
    /\ respch = 0
    /\ handed = {}
    /\ world \in Worlds

\* ------------------------------------------------------------- requests
RECURSIVE SetToSortedSeq(_)
SetToSortedSeq(S) ==
    IF S = {} THEN <<>>
    ELSE LET m == CHOOSE x \in S : \A y \in S : x <= y
         IN  <<m>> \o SetToSortedSeq(S \ {m})

\* a request timestamp for bucket b over the partitions vbs
ReqTs(b, vbs) ==
    [bucket |-> b,
     ts |-> [nil |-> FALSE,
             es  |-> [i \in 1..Cardinality(vbs) |-> ReqEntry(SetToSortedSeq(vbs)[i])]]]

BucketReqs == {ReqTs(b, vbs) : b \in world.buckets, vbs \in SUBSET world.vbs}

\* GetReqTimestamps() / GetRestartTimestamps() / GetShutdownTimestamps()
ReqLists ==
    {l \in UNION {[1..n -> BucketReqs] : n \in 0..world.reqs} :
        \A i, j \in DOMAIN l : i # j => l[i].bucket # l[j].bucket}

\* getLocalVbuckets: the vbuckets colocated with this node, per the cluster
LocalVbLists == {SetToSortedSeq(S) : S \in SUBSET world.vbs}

\* ------------------------------------------------------ control messages
controlStreamRequest(bucket, opaque, status, vbno, vbuuid, seqno) ==
    [kind |-> "controlStreamRequest", bucket |-> bucket, opaque |-> opaque,
     status |-> status, vbno |-> vbno, vbuuid |-> vbuuid, seqno |-> seqno,
     wrap |-> 0]

controlStreamEnd(bucket, opaque, status, vbno) ==
    [kind |-> "controlStreamEnd", bucket |-> bucket, opaque |-> opaque,
     status |-> status, vbno |-> vbno, vbuuid |-> 0, seqno |-> 0, wrap |-> 0]

controlFinKVData(bucket) ==
    [kind |-> "controlFinKVData", bucket |-> bucket, opaque |-> 0,
     status |-> "SUCCESS", vbno |-> 0, vbuuid |-> 0, seqno |-> 0, wrap |-> 0]

\* msg[0].(*T): the dynamic type of the first element of a channel message
MsgType(msg) == IF msg.wrap = 0 THEN msg.kind ELSE "[]interface{}"

\* c.FailsafeOp(feed.backch, nil, msg, feed.finch): the send goes through
\* when the channel has room; a closed finch lets the caller return instead
CanPost == Len(backch) < world.chan /\ ~finClosed

\* ------------------------------------------------------ processSubscribers
\* evaluator.Bucket() of the instance uuid
EvalBucket(uuid) == IF uuid = 1 THEN "b1" ELSE "b2"

\* router.Endpoints() of the instance uuid
RouterEndpoints(uuid) == IF uuid = 1 THEN {"localhost:9"} ELSE {"127.0.0.1:9"}

\* the host and port an address resolves to
HostPort(raddr) ==
    IF raddr \in {"localhost:9", "127.0.0.1:9"} THEN "loopback:9" ELSE raddr

\* c.EquivalentIP(raddr, raddrs): the address of raddrs that resolves as raddr
\* does (raddr itself when it is there), else raddr
EquivalentIP(raddr, raddrs) ==
    IF raddr \in raddrs THEN raddr
    ELSE IF \E x \in raddrs : HostPort(x) = HostPort(raddr)
         THEN CHOOSE x \in raddrs : HostPort(x) = HostPort(raddr)
         ELSE raddr

\* the nil endpoint
NoEndpoint == [id |-> 0, closes |-> 0]

\* getEndpoint: (raddr, endpoint, err)
getEndpoint(eps, raddr, lookupOk) ==
    IF ~lookupOk THEN [raddr |-> raddr, endpoint |-> NoEndpoint, err |-> TRUE]
    ELSE LET eq == EquivalentIP(raddr, DOMAIN eps) IN
         [raddr |-> eq,
          endpoint |-> IF eq \in DOMAIN eps THEN eps[eq] ELSE NoEndpoint,
          err |-> FALSE]

\* what the network does during one call: the addresses whose lookup fails,
\* whether the endpoints already there answer Ping(), the addresses the
\* factory fails for
EndpointEnvs(raddrs) ==
    {env \in [lookupBad  : SUBSET raddrs,
              ping       : IF raddrs = {} THEN {TRUE} ELSE BOOLEAN,
              factoryBad : SUBSET raddrs] :
        env.lookupBad \cap env.factoryBad = {}}

\* feed.epFactory(topic, typ, raddr): an endpoint that is none of those in
\* the table, no Close() called on it
epFactory(eps) ==
    LET used == {eps[k].id : k \in DOMAIN eps} IN
    [id |-> CHOOSE n \in 1..(Cardinality(used) + 1) :
                /\ n \notin used
                /\ \A j \in 1..(n - 1) : j \in used,
     closes |-> 0]

\* the body of the loop of startEndpoints for one address
startEndpoint(eps, raddr, env) ==
    LET g == getEndpoint(eps, raddr, raddr \notin env.lookupBad) IN
    IF g.err THEN eps
    ELSE IF g.endpoint = NoEndpoint \/ ~env.ping
         THEN IF raddr \in env.factoryBad THEN eps
              ELSE LET endpoint == epFactory(eps) IN
                   MapSet(MapSet(eps, raddr, endpoint), g.raddr, endpoint)
         ELSE MapSet(MapSet(eps, raddr, g.endpoint), g.raddr, g.endpoint)

\* whether the loop body sets err for this address
startEndpointFails(eps, raddr, env) ==
    LET g == getEndpoint(eps, raddr, raddr \notin env.lookupBad) IN
    \/ g.err
    \/ (g.endpoint = NoEndpoint \/ ~env.ping) /\ raddr \in env.factoryBad

\* startEndpoints: the addresses of the routers, in the order the maps yield
\* them; the error of a failed address is logged, nil is returned
RECURSIVE startEndpoints(_, _, _)
startEndpoints(eps, order, env) ==
    IF order = <<>> THEN eps
    ELSE startEndpoints(startEndpoint(eps, Head(order), env), Tail(order), env)

\* the err variable of startEndpoints and repairEndpoints when the loop is
\* over: whether some address failed
RECURSIVE endpointsErr(_, _, _)
endpointsErr(eps, order, env) ==
    IF order = <<>> THEN FALSE
    ELSE \/ startEndpointFails(eps, Head(order), env)
         \/ endpointsErr(startEndpoint(eps, Head(order), env), Tail(order), env)

\* what repairEndpoints returns: "return nil", whatever err holds
repairEndpointsErr(eps, order, env) == ErrNil

\* feed.subscribers: the error it returns
subscribers(subs) ==
    IF subs.evalErr \/ subs.routerErr THEN "ErrorInconsistentFeed"
    ELSE IF Cardinality(subs.evaluators) # Cardinality(subs.routers)
         THEN "ErrorInconsistentFeed"
    ELSE IF \E u \in subs.evaluators : u \notin subs.routers
         THEN "ErrorInconsistentFeed"
    ELSE ErrNil

\* the addresses startEndpoints visits for this request
Advertised(subs) ==
    IF subscribers(subs) = ErrNil
    THEN UNION {RouterEndpoints(u) : u \in subs.routers}
    ELSE {}

\* the orders in which the addresses of S can be visited
Orders(S) ==
    {s \in [1..Cardinality(S) -> S] : \A i, j \in DOMAIN s : s[i] = s[j] => i = j}

\* "update feed engines": an engine per evaluator, under the evaluator's bucket
updateEngines(engs, evaluators) ==
    [b \in (DOMAIN engs) \cup {EvalBucket(u) : u \in evaluators} |->
        LET old == IF b \in DOMAIN engs THEN DOMAIN engs[b] ELSE {}
            new == {u \in evaluators : EvalBucket(u) = b}
        IN  [u \in old \cup new |->
                IF u \in new THEN RouterEndpoints(u) ELSE engs[b][u]]]

processSubscribers(subs, order, env) ==
    IF subscribers(subs) # ErrNil
    THEN UNCHANGED <<engines, endpoints>>
    ELSE /\ endpoints' = startEndpoints(endpoints, order, env)
         /\ engines' = updateEngines(engines, subs.evaluators)

\* ------------------------------------------------- responses handed out
\* the timestamps handed out that the feed still holds once the entries of
\* the buckets bs were deleted or replaced by the result of a Union or a
\* FilterByVbuckets
Kept(bs) == {h \in handed : h[2] \notin bs}

\* topicResponse(): the response points to every timestamp of actTss and to
\* the timestamps of rollTss that are not empty
Pointers ==
    {<<"act", b>> : b \in {x \in DOMAIN actTss : ~actTss[x].nil}}
        \cup {<<"roll", b>> : b \in {x \in DOMAIN rollTss : ~IsEmpty(rollTss[x])}}

\* ----------------------------------------------------------- cleanupBucket
\* cleanupBucket that clears the feed of every bucket
cleanupBuckets_All(bs, enginesOk) ==
    /\ engines' = IF enginesOk THEN MapDeleteAll(engines, Buckets) ELSE engines
    /\ reqTss' = MapDeleteAll(reqTss, Buckets)
    /\ actTss' = MapDeleteAll(actTss, Buckets)
    /\ rollTss' = MapDeleteAll(rollTss, Buckets)
    /\ feeders' = MapDeleteAll(feeders, Buckets)
    /\ kvdata' = MapDeleteAll(kvdata, Buckets)
    /\ kvfin' = kvfin \cup {b \in DOMAIN kvdata : kvdata[b] = "run"}
    /\ pending' = {}

\* cleanupBucket that leaves the three timestamps of the bucket in place
cleanupBuckets_KeepTimestamps(bs, enginesOk) ==
    /\ engines' = IF enginesOk THEN MapDeleteAll(engines, bs) ELSE engines
    /\ UNCHANGED <<reqTss, actTss, rollTss>>
    /\ feeders' = MapDeleteAll(feeders, bs)
    /\ kvdata' = MapDeleteAll(kvdata, bs)
    /\ kvfin' = kvfin \cup {b \in bs \cap DOMAIN kvdata : kvdata[b] = "run"}
    /\ pending' = {q \in pending : q.bucket \notin (bs \cap DOMAIN feeders)}

\* cleanupBucket that never drops the engines
cleanupBuckets_KeepEngines(bs, enginesOk) ==
    /\ engines' = engines
    /\ reqTss' = MapDeleteAll(reqTss, bs)
    /\ actTss' = MapDeleteAll(actTss, bs)
    /\ rollTss' = MapDeleteAll(rollTss, bs)
    /\ feeders' = MapDeleteAll(feeders, bs)
    /\ kvdata' = MapDeleteAll(kvdata, bs)
    /\ kvfin' = kvfin \cup {b \in bs \cap DOMAIN kvdata : kvdata[b] = "run"}
    /\ pending' = {q \in pending : q.bucket \notin (bs \cap DOMAIN feeders)}

\* cleanupBucket that leaves the data-path worker of the bucket in place
cleanupBuckets_KeepWorker(bs, enginesOk) ==
    /\ engines' = IF enginesOk THEN MapDeleteAll(engines, bs) ELSE engines
    /\ reqTss' = MapDeleteAll(reqTss, bs)
    /\ actTss' = MapDeleteAll(actTss, bs)
    /\ rollTss' = MapDeleteAll(rollTss, bs)
    /\ feeders' = MapDeleteAll(feeders, bs)
    /\ UNCHANGED <<kvdata, kvfin>>
    /\ pending' = {q \in pending : q.bucket \notin (bs \cap DOMAIN feeders)}

\* cleanupBucket(bucketn, enginesOk) for every bucket of bs: drop the engines
\* if enginesOk, drop the three timestamps, close and drop the feeder (its
\* unanswered requests die with the connection), close and drop the data-path
\* worker (which posts controlFinKVData as it exits).
cleanupBuckets(bs, enginesOk) ==
    /\ engines' = IF enginesOk THEN MapDeleteAll(engines, bs) ELSE engines
    /\ reqTss' = MapDeleteAll(reqTss, bs)
    /\ actTss' = MapDeleteAll(actTss, bs)
    /\ rollTss' = MapDeleteAll(rollTss, bs)
    /\ feeders' = MapDeleteAll(feeders, bs)
    /\ kvdata' = MapDeleteAll(kvdata, bs)
    /\ kvfin' = kvfin \cup {b \in bs \cap DOMAIN kvdata : kvdata[b] = "run"}
    /\ pending' = {q \in pending : q.bucket \notin (bs \cap DOMAIN feeders)}

cleanupBucket(b, enginesOk) == cleanupBuckets({b}, enginesOk)

\* ------------------------------------------------------- command dequeue
StreamRequestCmds == {"Start", "RestartVbuckets", "AddBuckets"}

\* a gen-server that takes the next command while one is in hand
CanDequeue_Busy == pc # "stopped" /\ ncmds < world.cmds

CanDequeue == pc = "idle" /\ ncmds < world.cmds

\* the clients of the universe send this command
Offered(cmd) == cmd \in world.only

\* the sequence under observation goes on when ShutdownVbuckets follows a
\* Start, or AddBuckets a DelBuckets
tripGoesOn(cmd) ==
    \/ trip.cmd = "Start" /\ cmd = "ShutdownVbuckets"
    \/ trip.cmd = "DelBuckets" /\ cmd = "AddBuckets"

\* the AddBuckets that follows a DelBuckets: the engines its subscribers
\* give a feed that has none
AddTrip(cmd, subs) ==
    IF ~tripGoesOn(cmd) THEN NoTrip
    ELSE [trip EXCEPT !.fresh = IF subscribers(subs) = ErrNil
                                THEN updateEngines(NoTrip.fresh, subs.evaluators)
                                ELSE NoTrip.fresh]

BeginCmdTrip(cmd, rest, opaque, err, t) ==
    /\ pc' = "loop"
    /\ ctx' = [NoCtx EXCEPT !.cmd = cmd, !.rest = rest, !.opaque = opaque,
                            !.err = err]
    /\ last' = NoLast
    /\ ncmds' = ncmds + 1
    /\ respch' = 0
    /\ handed' = handed
    /\ trip' = t
    /\ world' = world
    /\ UNCHANGED <<feedMaps, backch, finClosed, pending, kvfin, lastOpaque>>

BeginCmd(cmd, rest, opaque, err) ==
    BeginCmdTrip(cmd, rest, opaque, err, IF tripGoesOn(cmd) THEN trip ELSE NoTrip)

\* handleCommand, fCmdStart: the endpoint type, processSubscribers, then
\* newOpaque and the loop
start(etype, subs, order, env, req, opaque) ==
    /\ CanDequeue
    /\ Offered("Start")
    /\ endpointType' = etype
    /\ processSubscribers(subs, order, env)
    /\ IF subscribers(subs) = ErrNil
       THEN BeginCmd("Start", req, opaque, ErrNil)
       ELSE BeginCmd("Start", <<>>, opaque, subscribers(subs))

\* restartVbuckets without its first three statements
repairCurrentEndpoints_Skipped(eps, order, env) == eps

\* "feed.repairEndpoints(rpReq)" with the addresses of endpointRaddrs(), the
\* first statements of restartVbuckets
repairCurrentEndpoints(eps, order, env) == startEndpoints(eps, order, env)

\* handleCommand, fCmdRestartVbuckets: repairEndpoints for the addresses of
\* the table, its error dropped, then newOpaque and the loop
restartVbuckets(order, env, req, opaque) ==
    /\ CanDequeue
    /\ Offered("RestartVbuckets")
    /\ endpoints' = repairCurrentEndpoints(endpoints, order, env)
    /\ BeginCmd("RestartVbuckets", req, opaque, ErrNil)
    /\ UNCHANGED <<engines, endpointType>>

\* handleCommand, fCmdRepairEndpoints: the loop of repairEndpoints is the
\* loop of startEndpoints over the addresses of the request; the workers get
\* the table by reference
repairEndpoints(order, env) ==
    /\ CanDequeue
    /\ Offered("RepairEndpoints")
    /\ endpoints' = startEndpoints(endpoints, order, env)
    /\ BeginCmd("RepairEndpoints", <<>>, 0,
                repairEndpointsErr(endpoints, order, env))
    /\ UNCHANGED <<engines, endpointType>>

\* handleCommand, fCmdAddBuckets
addBuckets(subs, order, env, req, opaque) ==
    /\ CanDequeue
    /\ Offered("AddBuckets")
    /\ processSubscribers(subs, order, env)
    /\ IF subscribers(subs) = ErrNil
       THEN BeginCmdTrip("AddBuckets", req, opaque, ErrNil,
                         AddTrip("AddBuckets", subs))
       ELSE BeginCmdTrip("AddBuckets", <<>>, opaque, subscribers(subs),
                         AddTrip("AddBuckets", subs))
    /\ UNCHANGED endpointType

\* handleCommand, fCmdShutdownVbuckets
shutdownVbuckets(req, opaque) ==
    /\ CanDequeue
    /\ Offered("ShutdownVbuckets")
    /\ BeginCmd("ShutdownVbuckets", req, opaque, ErrNil)
    /\ UNCHANGED downstream

\* handleCommand, fCmdDelBuckets: cleanupBucket(bucketn, true) for each bucket
delBuckets(bs) ==
    /\ CanDequeue
    /\ Offered("DelBuckets")
    /\ cleanupBuckets(bs, TRUE)
    /\ pc' = "loop"
    /\ ctx' = [NoCtx EXCEPT !.cmd = "DelBuckets"]
    /\ last' = NoLast
    /\ ncmds' = ncmds + 1
    /\ respch' = 0
    /\ handed' = Kept(bs)
    /\ trip' = IF world.trips
               THEN [NoTrip EXCEPT !.cmd = "DelBuckets", !.buckets = bs]
               ELSE NoTrip
    /\ world' = world
    /\ UNCHANGED <<endpoints, endpointType, backch, finClosed, lastOpaque>>

\* addInstances after processSubscribers: "post to kv data-path", a bucket
\* with engines and no worker is an invalid bucket
addInstancesErr(engs) ==
    IF \E b \in DOMAIN engs : ~HasKey(kvdata, b)
    THEN "ErrorInvalidBucket" ELSE ErrNil

\* handleCommand, fCmdAddInstances
addInstances(subs, order, env) ==
    /\ CanDequeue
    /\ Offered("AddInstances")
    /\ processSubscribers(subs, order, env)
    /\ pc' = "loop"
    /\ ctx' = [NoCtx EXCEPT !.cmd = "AddInstances",
                            !.err = IF subscribers(subs) # ErrNil
                                    THEN subscribers(subs)
                                    ELSE addInstancesErr(engines')]
    /\ last' = NoLast
    /\ ncmds' = ncmds + 1
    /\ respch' = 0
    /\ handed' = handed
    /\ trip' = NoTrip
    /\ world' = world
    /\ UNCHANGED <<feedMaps, endpointType, backch, finClosed, pending, kvfin,
                   lastOpaque>>

\* "close downstream": a Close() per key of the table, so an endpoint gets
\* as many as it has keys
closeEndpoints(eps) ==
    [k \in DOMAIN eps |->
        [eps[k] EXCEPT !.closes =
            @ + Cardinality({x \in DOMAIN eps : eps[x].id = eps[k].id})]]

\* shutdown that leaves the workers running and in the map
shutdownFeed_KeepWorkers ==
    /\ feeders' = [b \in DOMAIN feeders |-> "closed"]
    /\ kvdata' = kvdata
    /\ kvfin' = kvfin
    /\ endpoints' = closeEndpoints(endpoints)
    /\ pending' = {}
    /\ finClosed' = TRUE

\* feed.shutdown(): close feeders, close and drop workers, close endpoints,
\* close finch
shutdownFeed ==
    /\ feeders' = [b \in DOMAIN feeders |-> "closed"]
    /\ kvdata' = [x \in {} |-> "run"]
    /\ kvfin' = kvfin \cup {b \in DOMAIN kvdata : kvdata[b] = "run"}
    /\ endpoints' = closeEndpoints(endpoints)
    /\ pending' = {}
    /\ finClosed' = TRUE

\* handleCommand, fCmdShutdown: reply, then leave the loop
shutdown ==
    /\ CanDequeue
    /\ Offered("Shutdown")
    /\ shutdownFeed
    /\ pc' = "stopped"
    /\ ctx' = [NoCtx EXCEPT !.cmd = "Shutdown"]
    /\ last' = NoLast
    /\ ncmds' = ncmds + 1
    /\ respch' = 1
    /\ handed' = handed
    /\ trip' = NoTrip
    /\ world' = world
    /\ UNCHANGED <<reqTss, actTss, rollTss, engines, endpointType, backch,
                   lastOpaque>>

\* respch <- []interface{}{response, err}: the command's loop is over
replyCmd ==
    /\ pc = "loop"
    /\ ctx.rest = <<>>
    /\ respch < RespchSize
    /\ respch' = respch + 1
    /\ handed' = IF ctx.cmd \in StreamRequestCmds THEN handed \cup Pointers
                 ELSE handed
    /\ pc' = "idle"
    /\ ctx' = NoCtx
    /\ last' = NoLast
    /\ trip' = IF ctx.cmd \in {"Start", "DelBuckets"} THEN trip ELSE NoTrip
    /\ UNCHANGED <<feedMaps, downstream, backch, finClosed, pending, kvfin,
                   lastOpaque, ncmds, world>>

\* ------------------------------------------- start / restart / addBuckets
\* filterActive that never filters: active vbuckets are requested again
filterActive_Never(cmd, ts, ok, actTs) == ts

\* "don't re-request for already active vbuckets": start and restartVbuckets
\* assign the filtered timestamp, addBuckets drops the result
filterActive(cmd, ts, ok, actTs) ==
    IF ok /\ cmd # "AddBuckets"
    THEN FilterByVbuckets(ts, Vbno32to16(GetVbnos(actTs)))
    ELSE ts

\* "forget previous rollback for the current set of vbuckets"
forgetRollback(ok, rollTs, ts) ==
    IF ok THEN FilterByVbuckets(rollTs, Vbno32to16(GetVbnos(ts))) ELSE rollTs

\* "vbuckets that have out-standing request will be ignored"
filterOutstanding(ok, ts, reqTs) ==
    IF ok THEN FilterByVbuckets(ts, Vbno32to16(GetVbnos(reqTs))) ELSE ts

\* book-keeping of the outstanding requests: start unions with the previous
\* reqTs, restartVbuckets and addBuckets union ts with itself
bookkeepReqTs(cmd, ts, reqTs) ==
    IF cmd = "Start" THEN Union(ts, reqTs) ELSE Union(ts, ts)

\* the stream requests bucketFeed(opaque, false, true, ts) hands to the feeder
StartVbStreams(b, opaque, ts) ==
    {[kind |-> "start", bucket |-> b, vbno |-> v, opaque |-> opaque] :
        v \in VbSet(ts)}

\* the stream ends bucketFeed(opaque, true, false, ts) hands to the feeder
EndVbStreams(b, opaque, ts) ==
    {[kind |-> "end", bucket |-> b, vbno |-> v, opaque |-> opaque] :
        v \in VbSet(ts)}

\* startDataPath: UpdateTs on the worker already there, else NewKVData
startDataPath(b) == IF HasKey(kvdata, b) THEN kvdata ELSE MapSet(kvdata, b, "run")

\* the three assignments after waitStreamRequests returned (r, f, a)
updateRollTs(lRoll, r) == Union(lRoll, r)

updateActTs(lAct, a) == Union(lAct, a)

\* updateReqTs without its last statement: partitions answered with a
\* failure status stay outstanding
updateReqTs_KeepFailed(lReq, r, f, a) ==
    FilterByVbuckets(
        FilterByVbuckets(lReq, Vbno32to16(GetVbnos(r))),
        Vbno32to16(GetVbnos(a)))

updateReqTs(lReq, r, f, a) ==
    FilterByVbuckets(
        FilterByVbuckets(
            FilterByVbuckets(lReq, Vbno32to16(GetVbnos(r))),
            Vbno32to16(GetVbnos(a))),
        Vbno32to16(GetVbnos(f)))

\* "last error wins" turned into "first error wins"
lastError_First(err, e) == IF err # ErrNil THEN err ELSE e

\* "if e != nil { err = e }": the error of the command after a bucket that
\* ended with e
lastError(err, e) == IF e # ErrNil THEN e ELSE err

\* waitErr that forgets the error set by the callback
waitErr_TimeoutOnly(cberr, timedOut) ==
    IF timedOut THEN "ErrorResponseTimeout" ELSE ErrNil

\* waitStreamRequests / waitStreamEnds: "if err == nil { err = err1 }"
waitErr(cberr, timedOut) ==
    IF cberr # ErrNil THEN cberr
    ELSE IF timedOut THEN "ErrorResponseTimeout" ELSE ErrNil

\* a Start went through bucket b: what it was asked, whether every stream
\* request it issued was answered SUCCESS, and the partitions of reqTs[b] and
\* actTs[b] before it
StartTrip(b, req, ts, r, f, a, timedOut) ==
    IF ~world.trips THEN NoTrip
    ELSE [cmd |-> "Start", buckets |-> {b}, req |-> req, issued |-> VbSet(ts),
          ok |-> /\ ~timedOut
                 /\ VbSet(a) = VbSet(ts)
                 /\ VbSet(r) = {}
                 /\ VbSet(f) = {},
          preReq |-> VbSet(MapGetTs(reqTss, b)),
          preAct |-> VbSet(MapGetTs(actTss, b)),
          same |-> FALSE,
          fresh |-> NoTrip.fresh]

\* the ShutdownVbuckets that follows a Start goes through bucket b: is it
\* asked for the partitions the Start was asked for
ShutdownTrip(b, req) ==
    IF trip.cmd = "Start"
    THEN [trip EXCEPT !.same = (b \in trip.buckets /\ req = trip.req)]
    ELSE trip

\* a Start is waiting for the answers to the stream requests of bucket b
StartingTrip(cmd, b, req) ==
    IF cmd = "Start" /\ world.trips
    THEN [NoTrip EXCEPT !.cmd = "starting", !.buckets = {b}, !.req = req]
    ELSE trip

RunRecord(cmd, b, opaque, ts, r, f, a, timedOut, e) ==
    [cmd |-> cmd, bucket |-> b, kind |-> "run", opaque |-> opaque, ts |-> ts,
     r |-> r, f |-> f, a |-> a, timedOut |-> timedOut, err |-> e,
     preReq |-> MapGetTs(reqTss, b), preAct |-> MapGetTs(actTss, b),
     preRoll |-> MapGetTs(rollTss, b),
     preKeys |-> HasKey(reqTss, b) /\ HasKey(actTss, b) /\ HasKey(rollTss, b),
     prevErr |-> ctx.err, msg |-> NoMsg]

FatalRecord(cmd, b, e) ==
    [NoLast EXCEPT !.cmd = cmd, !.bucket = b, !.kind = "fatal", !.err = e,
                   !.prevErr = ctx.err,
                   !.preReq = MapGetTs(reqTss, b),
                   !.preAct = MapGetTs(actTss, b),
                   !.preRoll = MapGetTs(rollTss, b),
                   !.preKeys = HasKey(reqTss, b) /\ HasKey(actTss, b)
                               /\ HasKey(rollTss, b)]

\* the statements of the loop body after waitStreamRequests returned
streamRequestUpdate(b, lRoll, lAct, lReq, r, f, a, e) ==
    /\ rollTss' = MapSet(rollTss, b, updateRollTs(lRoll, r))
    /\ actTss' = MapSet(actTss, b, updateActTs(lAct, a))
    /\ reqTss' = MapSet(reqTss, b, updateReqTs(lReq, r, f, a))

\* one iteration of the loop of start / restartVbuckets / addBuckets, up to
\* the point where waitStreamRequests blocks on the back channel
streamRequestBucket(locOk, loc, feedOk) ==
    LET cmd    == ctx.cmd
        b      == Head(ctx.rest).bucket
        ts1    == SelectByVbuckets(Head(ctx.rest).ts, loc)
        actTs  == MapGetTs(actTss, b)
        ts2    == filterActive(cmd, ts1, HasKey(actTss, b), actTs)
        rollTs == forgetRollback(HasKey(rollTss, b), MapGetTs(rollTss, b), ts2)
        ts     == filterOutstanding(HasKey(reqTss, b), ts2, MapGetTs(reqTss, b))
        reqTs  == bookkeepReqTs(cmd, ts, MapGetTs(reqTss, b))
        vbnos  == Vbno32to16(GetVbnos(ts))
    IN
    /\ pc = "loop"
    /\ ctx.rest # <<>>
    /\ ctx.cmd \in StreamRequestCmds
    /\ IF ~locOk THEN
          \* getLocalVbuckets failed
          /\ cleanupBucket(b, FALSE)
          /\ pc' = "loop"
          /\ ctx' = [ctx EXCEPT !.rest = Tail(ctx.rest),
                            !.err = lastError(ctx.err, "ErrorClusterInfo")]
          /\ last' = FatalRecord(cmd, b, "ErrorClusterInfo")
          /\ handed' = Kept({b})
          /\ UNCHANGED <<endpoints, endpointType, backch, finClosed,
                         lastOpaque, ncmds, respch, trip, world>>
       ELSE IF ~feedOk THEN
          \* bucketFeed failed: "all feed errors are fatal, skip this bucket"
          /\ cleanupBucket(b, FALSE)
          /\ pc' = "loop"
          /\ ctx' = [ctx EXCEPT !.rest = Tail(ctx.rest),
                            !.err = lastError(ctx.err, "ErrorFeeder")]
          /\ last' = FatalRecord(cmd, b, "ErrorFeeder")
          /\ handed' = Kept({b})
          /\ UNCHANGED <<endpoints, endpointType, backch, finClosed,
                         lastOpaque, ncmds, respch, trip, world>>
       ELSE
          /\ feeders' = MapSet(feeders, b, "open")
          /\ kvdata' = startDataPath(b)
          /\ pending' = pending \cup StartVbStreams(b, ctx.opaque, ts)
          /\ lastOpaque' = [lastOpaque EXCEPT ![b] =
                 [v \in AllVbnos |-> IF v \in VbSet(ts) THEN ctx.opaque
                                  ELSE lastOpaque[b][v]]]
          /\ IF Len(vbnos) = 0 THEN
                \* waitStreamRequests returns at once
                /\ streamRequestUpdate(b, rollTs, actTs, reqTs, NewTsVbuuid,
                                       NewTsVbuuid, NewTsVbuuid, ErrNil)
                /\ pc' = "loop"
                /\ ctx' = [ctx EXCEPT !.rest = Tail(ctx.rest)]
                /\ last' = RunRecord(cmd, b, ctx.opaque, ts, NewTsVbuuid,
                                     NewTsVbuuid, NewTsVbuuid, FALSE, ErrNil)
                /\ trip' = IF cmd = "Start"
                           THEN StartTrip(b, VbSet(Head(ctx.rest).ts), ts,
                                          NewTsVbuuid, NewTsVbuuid,
                                          NewTsVbuuid, FALSE)
                           ELSE trip
             ELSE
                /\ pc' = "wait"
                /\ ctx' = [ctx EXCEPT !.rest = Tail(ctx.rest), !.bucket = b,
                              !.ts = ts, !.vbnos = vbnos, !.r = NewTsVbuuid,
                              !.f = NewTsVbuuid, !.a = NewTsVbuuid,
                              !.cberr = ErrNil, !.timedOut = FALSE,
                              !.held = <<>>, !.lReq = reqTs, !.lAct = actTs,
                              !.lRoll = rollTs]
                /\ last' = NoLast
                /\ trip' = StartingTrip(cmd, b, VbSet(Head(ctx.rest).ts))
                /\ UNCHANGED <<reqTss, actTss, rollTss>>
          /\ handed' = IF Len(vbnos) = 0 THEN Kept({b}) ELSE handed
          /\ UNCHANGED <<downstream, backch, finClosed, kvfin, ncmds, respch, world>>

\* start / restartVbuckets / addBuckets after waitStreamRequests returned
streamRequestDone ==
    LET e == waitErr(ctx.cberr, ctx.timedOut) IN
    /\ pc = "requeue"
    /\ ctx.held = <<>>
    /\ ctx.cmd \in StreamRequestCmds
    /\ streamRequestUpdate(ctx.bucket, ctx.lRoll, ctx.lAct, ctx.lReq,
                           ctx.r, ctx.f, ctx.a, e)
    /\ pc' = "loop"
    /\ ctx' = [NoCtx EXCEPT !.cmd = ctx.cmd, !.rest = ctx.rest,
                            !.opaque = ctx.opaque,
                            !.err = lastError(ctx.err, e)]
    /\ last' = RunRecord(ctx.cmd, ctx.bucket, ctx.opaque, ctx.ts, ctx.r, ctx.f,
                         ctx.a, ctx.timedOut, e)
    /\ trip' = IF ctx.cmd = "Start"
               THEN StartTrip(ctx.bucket, trip.req, ctx.ts, ctx.r, ctx.f, ctx.a,
                              ctx.timedOut)
               ELSE trip
    /\ handed' = Kept({ctx.bucket})
    /\ UNCHANGED <<feeders, kvdata, downstream, backch, finClosed, pending,
                   kvfin, lastOpaque, ncmds, respch, world>>

\* -------------------------------------------------------- shutdownVbuckets
\* streamEndUpdate that forgets actTs: ended partitions stay active
streamEndUpdate_KeepAct(b, lAct, lReq, lRoll, endTs) ==
    LET vbnos == Vbno32to16(GetVbnos(endTs)) IN
    /\ actTss' = MapSet(actTss, b, lAct)
    /\ reqTss' = MapSet(reqTss, b, FilterByVbuckets(lReq, vbnos))
    /\ rollTss' = MapSet(rollTss, b, FilterByVbuckets(lRoll, vbnos))

\* streamEndUpdate that forgets every partition, ended or not
streamEndUpdate_Everything(b, lAct, lReq, lRoll, endTs) ==
    /\ actTss' = MapSet(actTss, b, FilterByVbuckets(lAct, Vbno32to16(GetVbnos(lAct))))
    /\ reqTss' = MapSet(reqTss, b, FilterByVbuckets(lReq, Vbno32to16(GetVbnos(lReq))))
    /\ rollTss' = MapSet(rollTss, b, FilterByVbuckets(lRoll, Vbno32to16(GetVbnos(lRoll))))

\* the three assignments after waitStreamEnds returned endTs
streamEndUpdate(b, lAct, lReq, lRoll, endTs) ==
    LET vbnos == Vbno32to16(GetVbnos(endTs)) IN
    /\ actTss' = MapSet(actTss, b, FilterByVbuckets(lAct, vbnos))
    /\ reqTss' = MapSet(reqTss, b, FilterByVbuckets(lReq, vbnos))
    /\ rollTss' = MapSet(rollTss, b, FilterByVbuckets(lRoll, vbnos))

\* the bucket check that passes every bucket
knownBucket_Always(b) == TRUE

\* "if !ok1 || !ok2 || !ok3": the bucket has its three timestamps
knownBucket(b) == HasKey(actTss, b) /\ HasKey(rollTss, b) /\ HasKey(reqTss, b)

\* one iteration of the loop of shutdownVbuckets, up to waitStreamEnds
streamEndBucket(locOk, loc, feedOk) ==
    LET b     == Head(ctx.rest).bucket
        ts    == SelectByVbuckets(Head(ctx.rest).ts, loc)
        ok    == knownBucket(b)
        vbnos == Vbno32to16(GetVbnos(ts))
        e     == IF ~locOk THEN "ErrorClusterInfo"
                 ELSE IF ~ok THEN "ErrorInvalidBucket" ELSE "ErrorFeeder"
    IN
    /\ pc = "loop"
    /\ ctx.rest # <<>>
    /\ ctx.cmd = "ShutdownVbuckets"
    /\ IF ~locOk \/ ~ok \/ ~feedOk THEN
          \* "in case of shutdown we are not cleaning the bucket": continue
          /\ pc' = "loop"
          /\ ctx' = [ctx EXCEPT !.rest = Tail(ctx.rest),
                            !.err = lastError(ctx.err, e)]
          /\ last' = FatalRecord("ShutdownVbuckets", b, e)
          /\ UNCHANGED <<feedMaps, pending>>
       ELSE
          /\ pending' = pending \cup EndVbStreams(b, ctx.opaque, ts)
          /\ IF Len(vbnos) = 0 THEN
                \* waitStreamEnds returns at once
                /\ streamEndUpdate(b, MapGetTs(actTss, b), MapGetTs(reqTss, b),
                                   MapGetTs(rollTss, b), NewTsVbuuid)
                /\ pc' = "loop"
                /\ ctx' = [ctx EXCEPT !.rest = Tail(ctx.rest)]
                /\ last' = RunRecord("ShutdownVbuckets", b, ctx.opaque, ts,
                                     NewTsVbuuid, NewTsVbuuid, NewTsVbuuid,
                                     FALSE, ErrNil)
             ELSE
                /\ pc' = "wait"
                /\ ctx' = [ctx EXCEPT !.rest = Tail(ctx.rest), !.bucket = b,
                              !.ts = ts, !.vbnos = vbnos, !.r = NewTsVbuuid,
                              !.f = NewTsVbuuid, !.a = NewTsVbuuid,
                              !.cberr = ErrNil, !.timedOut = FALSE,
                              !.held = <<>>, !.lReq = MapGetTs(reqTss, b),
                              !.lAct = MapGetTs(actTss, b),
                              !.lRoll = MapGetTs(rollTss, b)]
                /\ last' = NoLast
                /\ UNCHANGED <<reqTss, actTss, rollTss>>
          /\ UNCHANGED <<feeders, kvdata>>
    /\ trip' = ShutdownTrip(Head(ctx.rest).bucket, VbSet(Head(ctx.rest).ts))
    /\ handed' = IF locOk /\ ok /\ feedOk /\ Len(vbnos) = 0
                 THEN Kept({b}) ELSE handed
    /\ UNCHANGED <<downstream, backch, finClosed, kvfin, lastOpaque, ncmds,
                   respch, world>>

\* shutdownVbuckets after waitStreamEnds returned (endTs is kept in ctx.a)
streamEndDone ==
    LET e == waitErr(ctx.cberr, ctx.timedOut) IN
    /\ pc = "requeue"
    /\ ctx.held = <<>>
    /\ ctx.cmd = "ShutdownVbuckets"
    /\ streamEndUpdate(ctx.bucket, ctx.lAct, ctx.lReq, ctx.lRoll, ctx.a)
    /\ pc' = "loop"
    /\ ctx' = [NoCtx EXCEPT !.cmd = ctx.cmd, !.rest = ctx.rest,
                            !.opaque = ctx.opaque,
                            !.err = lastError(ctx.err, e)]
    /\ last' = RunRecord(ctx.cmd, ctx.bucket, ctx.opaque, ctx.ts, ctx.r, ctx.f,
                         ctx.a, ctx.timedOut, e)
    /\ handed' = Kept({ctx.bucket})
    /\ UNCHANGED <<feeders, kvdata, downstream, backch, finClosed, pending,
                   kvfin, lastOpaque, ncmds, respch, trip, world>>

\* ----------------------------------------------------------- waitOnFeedback
\* the callback of waitStreamRequests: does the message belong to this batch
matchStreamRequest(msg) ==
    /\ MsgType(msg) = "controlStreamRequest"
    /\ msg.bucket = ctx.bucket
    /\ msg.opaque = ctx.opaque
    /\ Contains(ctx.ts, msg.vbno)

\* the callback of waitStreamEnds
matchStreamEnd(msg) ==
    /\ MsgType(msg) = "controlStreamEnd"
    /\ msg.bucket = ctx.bucket
    /\ msg.opaque = ctx.opaque
    /\ Contains(ctx.ts, msg.vbno)

\* classifyStreamRequest with ROLLBACK taken for a failed stream request
classifyStreamRequest_RollbackFails(c, val) ==
    LET vbnos == RemoveUint16(val.vbno, c.vbnos) IN
    IF val.status = "SUCCESS" THEN
        [c EXCEPT !.a = TsAppend(c.a, val.vbno, val.seqno, val.vbuuid, 0, 0),
                  !.vbnos = vbnos]
    ELSE IF val.status = "ROLLBACK" THEN
        [c EXCEPT !.r = TsAppend(c.r, val.vbno, val.seqno, val.vbuuid, 0, 0),
                  !.cberr = "ErrorStreamRequest", !.vbnos = vbnos]
    ELSE IF val.status = "NOT_MY_VBUCKET" THEN
        [c EXCEPT !.f = TsAppend(c.f, val.vbno, val.seqno, val.vbuuid, 0, 0),
                  !.cberr = "ErrorNotMyVbucket", !.vbnos = vbnos]
    ELSE
        [c EXCEPT !.f = TsAppend(c.f, val.vbno, val.seqno, val.vbuuid, 0, 0),
                  !.cberr = "ErrorStreamRequest", !.vbnos = vbnos]

\* classification of a matching controlStreamRequest by its status
classifyStreamRequest(c, val) ==
    LET vbnos == RemoveUint16(val.vbno, c.vbnos) IN
    IF val.status = "SUCCESS" THEN
        [c EXCEPT !.a = TsAppend(c.a, val.vbno, val.seqno, val.vbuuid, 0, 0),
                  !.vbnos = vbnos]
    ELSE IF val.status = "ROLLBACK" THEN
        [c EXCEPT !.r = TsAppend(c.r, val.vbno, val.seqno, val.vbuuid, 0, 0),
                  !.vbnos = vbnos]
    ELSE IF val.status = "NOT_MY_VBUCKET" THEN
        [c EXCEPT !.f = TsAppend(c.f, val.vbno, val.seqno, val.vbuuid, 0, 0),
                  !.cberr = "ErrorNotMyVbucket", !.vbnos = vbnos]
    ELSE
        [c EXCEPT !.f = TsAppend(c.f, val.vbno, val.seqno, val.vbuuid, 0, 0),
                  !.cberr = "ErrorStreamRequest", !.vbnos = vbnos]

\* classification of a matching controlStreamEnd by its status
classifyStreamEnd(c, val) ==
    LET vbnos == RemoveUint16(val.vbno, c.vbnos) IN
    IF val.status = "SUCCESS" THEN
        [c EXCEPT !.a = TsAppend(c.a, val.vbno, 0, 0, 0, 0), !.vbnos = vbnos]
    ELSE IF val.status = "NOT_MY_VBUCKET" THEN
        [c EXCEPT !.f = TsAppend(c.f, val.vbno, 0, 0, 0, 0),
                  !.cberr = "ErrorNotMyVbucket", !.vbnos = vbnos]
    ELSE
        [c EXCEPT !.f = TsAppend(c.f, val.vbno, 0, 0, 0, 0),
                  !.cberr = "ErrorStreamEnd", !.vbnos = vbnos]

\* "case msg := <-feed.backch" inside waitOnFeedback
waitOnFeedbackRecv ==
    LET msg     == Head(backch)
        isEnd   == ctx.cmd = "ShutdownVbuckets"
        matches == IF isEnd THEN matchStreamEnd(msg) ELSE matchStreamRequest(msg)
        c1      == IF isEnd THEN classifyStreamEnd(ctx, msg)
                   ELSE classifyStreamRequest(ctx, msg)
    IN
    /\ pc = "wait"
    /\ backch # <<>>
    /\ backch' = Tail(backch)
    /\ IF matches THEN
          /\ ctx' = c1
          /\ pc' = IF Len(c1.vbnos) = 0 THEN "requeue" ELSE "wait"
       ELSE
          \* "skip": msgs = append(msgs, msg)
          /\ ctx' = [ctx EXCEPT !.held = Append(ctx.held, msg)]
          /\ pc' = "wait"
    /\ last' = NoLast
    /\ UNCHANGED <<feedMaps, downstream, finClosed, pending, kvfin, lastOpaque,
                   ncmds, respch, handed, trip, world>>

\* "case <-timeout" inside waitOnFeedback
waitOnFeedbackTimeout ==
    /\ pc = "wait"
    /\ pc' = "requeue"
    /\ ctx' = [ctx EXCEPT !.timedOut = TRUE]
    /\ last' = NoLast
    /\ UNCHANGED <<feedMaps, downstream, backch, finClosed, pending, kvfin,
                   lastOpaque, ncmds, respch, handed, trip, world>>

\* "feed.backch <- []interface{}{msg}": msg is itself a []interface{}, so the
\* message put back has the earlier message as its first element
repopulate(msg) == [msg EXCEPT !.wrap = msg.wrap + 1]

\* "re-populate in the same order": one blocking send per set-aside message
waitOnFeedbackRepopulate ==
    /\ pc = "requeue"
    /\ ctx.held # <<>>
    /\ Len(backch) < world.chan
    /\ backch' = Append(backch, repopulate(Head(ctx.held)))
    /\ ctx' = [ctx EXCEPT !.held = Tail(ctx.held)]
    /\ last' = NoLast
    /\ UNCHANGED <<feedMaps, downstream, finClosed, pc, pending, kvfin,
                   lastOpaque, ncmds, respch, handed, trip, world>>

\* ------------------------------------------------- genServer, back channel
\* genServer's deferred recover(): log, then feed.shutdown()
genServerCrash ==
    /\ shutdownFeed
    /\ pc' = "stopped"
    /\ UNCHANGED <<reqTss, actTss, rollTss, engines>>

\* the client call of command cmd when FailsafeOp comes back on the closed
\* finish channel, with no reply: MutationTopic, RestartVbuckets and
\* AddBuckets take resp[0] of the reply, the others return the error
clientCall(cmd) ==
    IF cmd \in {"Start", "RestartVbuckets", "AddBuckets"} THEN "ClientPanic"
    ELSE "ErrorClosed"

\* a collaborator the actor calls for the next bucket of a command panics:
\* the deferred recover() runs, the client of the command gets no reply
genServerPanic ==
    /\ pc = "loop"
    /\ ctx.rest # <<>>
    /\ genServerCrash
    /\ ctx' = NoCtx
    /\ last' = [NoLast EXCEPT !.kind = "panic", !.cmd = ctx.cmd,
                              !.err = clientCall(ctx.cmd)]
    /\ UNCHANGED <<endpointType, backch, lastOpaque, ncmds, respch, handed, trip, world>>

\* backchStreamRequest that takes every answer for an unexpected one
backchStreamRequest_Unexpected(v) ==
    /\ pc' = pc
    /\ UNCHANGED <<feedMaps, finClosed, pending, kvfin, engines,
                   endpoints>>

\* backchStreamRequest that books an unexpected SUCCESS as an active partition
backchStreamRequest_BooksUnexpected(v) ==
    LET reqTs == MapGetTs(reqTss, v.bucket)
        e     == IF GetOk(reqTs, v.vbno) THEN GetEntry(reqTs, v.vbno)
                 ELSE Entry(v.vbno, v.seqno, v.vbuuid, 0, 0)
    IN
    IF v.status = "ROLLBACK" /\ GetOk(reqTs, v.vbno) THEN
        /\ reqTss' = MapSet(reqTss, v.bucket, FilterByVbuckets(reqTs, <<v.vbno>>))
        /\ rollTss' = MapSet(rollTss, v.bucket,
               TsAppend(MapGetTs(rollTss, v.bucket), v.vbno, v.seqno,
                        e.vbuuid, e.ss, e.se))
        /\ pc' = pc
        /\ UNCHANGED <<actTss, feeders, kvdata, finClosed, pending, kvfin, engines,
                       endpoints>>
    ELSE IF v.status = "SUCCESS" THEN
        /\ reqTss' = MapSet(reqTss, v.bucket, FilterByVbuckets(reqTs, <<v.vbno>>))
        /\ actTss' = MapSet(actTss, v.bucket,
               TsAppend(MapGetTs(actTss, v.bucket), v.vbno, e.seqno,
                        e.vbuuid, e.ss, e.se))
        /\ pc' = pc
        /\ UNCHANGED <<rollTss, feeders, kvdata, finClosed, pending, kvfin, engines,
                       endpoints>>
    ELSE
        /\ reqTss' = IF GetOk(reqTs, v.vbno)
                     THEN MapSet(reqTss, v.bucket, FilterByVbuckets(reqTs, <<v.vbno>>))
                     ELSE reqTss
        /\ pc' = pc
        /\ UNCHANGED <<actTss, rollTss, feeders, kvdata, finClosed, pending, kvfin, engines,
                       endpoints>>

\* backchStreamRequest that leaves a partition answered with a failure status
\* outstanding
backchStreamRequest_KeepsFailed(v) ==
    LET reqTs == MapGetTs(reqTss, v.bucket)
        e     == GetEntry(reqTs, v.vbno)
    IN
    IF ~GetOk(reqTs, v.vbno) \/ v.status \notin {"ROLLBACK", "SUCCESS"} THEN
        /\ pc' = pc
        /\ UNCHANGED <<feedMaps, finClosed, pending, kvfin, engines,
                       endpoints>>
    ELSE IF v.status = "ROLLBACK" THEN
        /\ reqTss' = MapSet(reqTss, v.bucket, FilterByVbuckets(reqTs, <<v.vbno>>))
        /\ rollTss' = MapSet(rollTss, v.bucket,
               TsAppend(MapGetTs(rollTss, v.bucket), v.vbno, v.seqno,
                        e.vbuuid, e.ss, e.se))
        /\ pc' = pc
        /\ UNCHANGED <<actTss, feeders, kvdata, finClosed, pending, kvfin, engines,
                       endpoints>>
    ELSE
        /\ reqTss' = MapSet(reqTss, v.bucket, FilterByVbuckets(reqTs, <<v.vbno>>))
        /\ actTss' = MapSet(actTss, v.bucket,
               TsAppend(MapGetTs(actTss, v.bucket), v.vbno, e.seqno,
                        e.vbuuid, e.ss, e.se))
        /\ pc' = pc
        /\ UNCHANGED <<rollTss, feeders, kvdata, finClosed, pending, kvfin, engines,
                       endpoints>>

\* "case msg = <-feed.backch", msg[0] is a *controlStreamRequest
backchStreamRequest(v) ==
    LET reqTs == MapGetTs(reqTss, v.bucket)
        e     == GetEntry(reqTs, v.vbno)
    IN
    IF ~GetOk(reqTs, v.vbno) THEN
        \* "unexpected %T": logged and dropped
        /\ pc' = pc
        /\ UNCHANGED <<feedMaps, finClosed, pending, kvfin, engines,
                       endpoints>>
    ELSE IF v.status = "ROLLBACK" THEN
        IF MapGetTs(rollTss, v.bucket).nil THEN genServerCrash
        ELSE
        /\ reqTss' = MapSet(reqTss, v.bucket, FilterByVbuckets(reqTs, <<v.vbno>>))
        /\ rollTss' = MapSet(rollTss, v.bucket,
               TsAppend(MapGetTs(rollTss, v.bucket), v.vbno, v.seqno,
                        e.vbuuid, e.ss, e.se))
        /\ pc' = pc
        /\ UNCHANGED <<actTss, feeders, kvdata, finClosed, pending, kvfin, engines,
                       endpoints>>
    ELSE IF v.status = "SUCCESS" THEN
        IF MapGetTs(actTss, v.bucket).nil THEN genServerCrash
        ELSE
        /\ reqTss' = MapSet(reqTss, v.bucket, FilterByVbuckets(reqTs, <<v.vbno>>))
        /\ actTss' = MapSet(actTss, v.bucket,
               TsAppend(MapGetTs(actTss, v.bucket), v.vbno, e.seqno,
                        e.vbuuid, e.ss, e.se))
        /\ pc' = pc
        /\ UNCHANGED <<rollTss, feeders, kvdata, finClosed, pending, kvfin, engines,
                       endpoints>>
    ELSE
        /\ reqTss' = MapSet(reqTss, v.bucket, FilterByVbuckets(reqTs, <<v.vbno>>))
        /\ pc' = pc
        /\ UNCHANGED <<actTss, rollTss, feeders, kvdata, finClosed, pending, kvfin, engines,
                       endpoints>>

\* backchStreamEnd that leaves reqTss alone
backchStreamEnd_KeepsReq(v) ==
    /\ actTss' = MapSet(actTss, v.bucket,
           FilterByVbuckets(MapGetTs(actTss, v.bucket), <<v.vbno>>))
    /\ rollTss' = MapSet(rollTss, v.bucket,
           FilterByVbuckets(MapGetTs(rollTss, v.bucket), <<v.vbno>>))
    /\ pc' = pc
    /\ UNCHANGED <<reqTss, feeders, kvdata, finClosed, pending, kvfin, engines,
                   endpoints>>

\* "case msg = <-feed.backch", msg[0] is a *controlStreamEnd
backchStreamEnd(v) ==
    /\ reqTss' = MapSet(reqTss, v.bucket,
           FilterByVbuckets(MapGetTs(reqTss, v.bucket), <<v.vbno>>))
    /\ actTss' = MapSet(actTss, v.bucket,
           FilterByVbuckets(MapGetTs(actTss, v.bucket), <<v.vbno>>))
    /\ rollTss' = MapSet(rollTss, v.bucket,
           FilterByVbuckets(MapGetTs(rollTss, v.bucket), <<v.vbno>>))
    /\ pc' = pc
    /\ UNCHANGED <<feeders, kvdata, finClosed, pending, kvfin, engines,
                   endpoints>>

\* "case msg = <-feed.backch", msg[0] is a *controlFinKVData
backchFinKVData(v) ==
    LET actTs == MapGetTs(actTss, v.bucket) IN
    IF HasKey(actTss, v.bucket) /\ ~actTs.nil /\ TsLen(actTs) = 0
    THEN /\ cleanupBucket(v.bucket, FALSE)
         /\ pc' = pc
         /\ UNCHANGED <<finClosed, endpoints>>
    ELSE /\ pc' = pc
         /\ UNCHANGED <<feedMaps, finClosed, pending, kvfin, engines,
                        endpoints>>

FlushRecord(msg) ==
    [NoLast EXCEPT !.kind = "flush", !.bucket = msg.bucket, !.msg = msg,
                   !.preReq = MapGetTs(reqTss, msg.bucket),
                   !.preAct = MapGetTs(actTss, msg.bucket),
                   !.preRoll = MapGetTs(rollTss, msg.bucket),
                   !.preKeys = HasKey(reqTss, msg.bucket)
                               /\ HasKey(actTss, msg.bucket)
                               /\ HasKey(rollTss, msg.bucket)]

\* the back-channel case of genServer's select
genServerBackch ==
    LET msg == Head(backch) IN
    /\ pc = "idle"
    /\ backch # <<>>
    /\ backch' = Tail(backch)
    /\ IF MsgType(msg) = "controlStreamRequest" THEN backchStreamRequest(msg)
       ELSE IF MsgType(msg) = "controlStreamEnd" THEN backchStreamEnd(msg)
       ELSE IF MsgType(msg) = "controlFinKVData" THEN backchFinKVData(msg)
       ELSE \* "back channel flush %T": logged and dropped
            /\ pc' = pc
            /\ UNCHANGED <<feedMaps, finClosed, pending, kvfin, engines,
                           endpoints>>
    /\ last' = FlushRecord(msg)
    /\ handed' = IF MsgType(msg) = "controlStreamRequest"
                 THEN handed   \* Append() works on the timestamp in place
                 ELSE IF MsgType(msg) = "controlStreamEnd" THEN Kept({msg.bucket})
                 ELSE {h \in handed : HasKey(actTss', h[2])}
    /\ UNCHANGED <<endpointType, ctx, lastOpaque, ncmds, respch, trip, world>>

\* ------------------------------------------------------ data-path producers
\* the worker of bucket b is consuming its feeder's mutation channel
Running(b) == HasKey(kvdata, b) /\ kvdata[b] = "run"

\* PostStreamRequest: the worker forwards the upstream's answer to a request
PostStreamRequest(q, status, seqno) ==
    /\ q \in pending
    /\ q.kind = "start"
    /\ world.answers
    /\ Running(q.bucket)
    /\ CanPost
    /\ backch' = Append(backch,
           controlStreamRequest(q.bucket, q.opaque, status, q.vbno, 7, seqno))
    /\ pending' = pending \ {q}
    /\ last' = NoLast
    /\ UNCHANGED <<feedMaps, downstream, finClosed, pc, ctx, kvfin, lastOpaque,
                   ncmds, respch, handed, trip, world>>

\* PostStreamEnd: the worker forwards the upstream's answer to a stream end;
\* a stream that ended answers no stream request any more
PostStreamEnd(q, status) ==
    /\ q \in pending
    /\ q.kind = "end"
    /\ world.answers
    /\ Running(q.bucket)
    /\ CanPost
    /\ backch' = Append(backch,
           controlStreamEnd(q.bucket, q.opaque, status, q.vbno))
    /\ pending' = IF status = "SUCCESS"
                  THEN {x \in pending : ~(x.bucket = q.bucket /\ x.vbno = q.vbno)}
                  ELSE pending \ {q}
    /\ last' = NoLast
    /\ UNCHANGED <<feedMaps, downstream, finClosed, pc, ctx, kvfin, lastOpaque,
                   ncmds, respch, handed, trip, world>>

\* the worker of bucket b leaves its loop (its mutation channel was closed)
KVDataExit(b) ==
    /\ Running(b)
    /\ kvdata' = [kvdata EXCEPT ![b] = "exited"]
    /\ kvfin' = kvfin \cup {b}
    /\ last' = NoLast
    /\ UNCHANGED <<reqTss, actTss, rollTss, feeders, downstream, backch,
                   finClosed, pc, ctx, pending, lastOpaque, ncmds, respch, handed, trip, world>>

\* PostFinKVdata: the exiting worker tells the feed
PostFinKVdata(b) ==
    /\ b \in kvfin
    /\ CanPost
    /\ backch' = Append(backch, controlFinKVData(b))
    /\ kvfin' = kvfin \ {b}
    /\ last' = NoLast
    /\ UNCHANGED <<feedMaps, downstream, finClosed, pc, ctx, pending, lastOpaque,
                   ncmds, respch, handed, trip, world>>

\* ---------------------------------------------------------- topicResponse
\* the response composed for the caller: every entry of actTss, and the
\* entries of rollTss that are not empty
topicResponse ==
    [ActiveTimestamps   |-> {actTss[b] : b \in DOMAIN actTss},
     RollbackTimestamps |-> {rollTss[b] : b \in {x \in DOMAIN rollTss :
                                                    ~IsEmpty(rollTss[x])}}]

\* ------------------------------------------------------------------- Next
Next ==
    \/ \E et \in EtypesOf(world), subs \in SubsOf(world), req \in ReqLists,
          o \in OpaquesOf(world) :
           \E order \in Orders(Advertised(subs)),
              env \in EndpointEnvs(Advertised(subs)) :
               start(et, subs, order, env, req, o)
    \/ \E req \in ReqLists, o \in OpaquesOf(world) :
           \E order \in Orders(DOMAIN endpoints),
              env \in EndpointEnvs(DOMAIN endpoints) :
               restartVbuckets(order, env, req, o)
    \/ \E raddrs \in RepairsOf(world) :
           \E order \in Orders(raddrs), env \in EndpointEnvs(raddrs) :
               repairEndpoints(order, env)
    \/ \E subs \in SubsOf(world), req \in ReqLists, o \in OpaquesOf(world) :
           \E order \in Orders(Advertised(subs)),
              env \in EndpointEnvs(Advertised(subs)) :
               addBuckets(subs, order, env, req, o)
    \/ \E subs \in SubsOf(world) :
           \E order \in Orders(Advertised(subs)),
              env \in EndpointEnvs(Advertised(subs)) :
               addInstances(subs, order, env)
    \/ \E req \in ReqLists, o \in OpaquesOf(world) : shutdownVbuckets(req, o)
    \/ \E bs \in SUBSET world.buckets : delBuckets(bs)
    \/ shutdown
    \/ replyCmd
    \/ \E locOk, feedOk \in BOOLEAN, loc \in LocalVbLists :
           streamRequestBucket(locOk, loc, feedOk)
    \/ streamRequestDone
    \/ \E locOk, feedOk \in BOOLEAN, loc \in LocalVbLists :
           streamEndBucket(locOk, loc, feedOk)
    \/ streamEndDone
    \/ waitOnFeedbackRecv
    \/ waitOnFeedbackTimeout
    \/ waitOnFeedbackRepopulate
    \/ genServerBackch
    \/ genServerPanic
    \/ \E q \in pending, st \in Statuses, sq \in AnsSeqnos : PostStreamRequest(q, st, sq)
    \/ \E q \in pending, st \in Statuses \ {"ROLLBACK"} : PostStreamEnd(q, st)
    \/ \E b \in world.buckets : KVDataExit(b)
    \/ \E b \in world.buckets : PostFinKVdata(b)

Spec == Init /\ [][Next]_vars

\* The gen-server goroutine, its timer and the runtime make progress: a
\* goroutine that can take its next step takes it, a timer that is armed
\* fires.  Behaviours with the larger back channel.
LiveInit == Init /\ world = ShortWorld

LiveSpec ==
    /\ LiveInit
    /\ [][Next]_vars
    /\ WF_vars(genServerBackch)
    /\ WF_vars(waitOnFeedbackTimeout)
    /\ WF_vars(waitOnFeedbackRepopulate)
    /\ WF_vars(streamRequestDone)
    /\ WF_vars(streamEndDone)
    /\ WF_vars(replyCmd)

\* ----------------------------------------------------------------- claims
\* the partitions bucket b has in the timestamp map m
Parts(m, b) == VbSet(MapGetTs(m, b))

\* the gen-server is between two turns
TurnOver == pc \in {"idle", "stopped"}

\* the partitions of the last batch that no feedback accounted for
Unanswered == VbSet(last.ts) \ (VbSet(last.r) \cup VbSet(last.a) \cup VbSet(last.f))

\* a start-like command just finished the reconciler run of one bucket
StartRan == last.kind = "run" /\ last.cmd = "Start"

\* C1: after every actor turn, for every bucket the partition sets of reqTs,
\* actTs and rollTs are pairwise disjoint.
C1_PartitionDisjointness ==
    TurnOver =>
        \A b \in Buckets :
            /\ Parts(reqTss, b) \cap Parts(actTss, b) = {}
            /\ Parts(reqTss, b) \cap Parts(rollTss, b) = {}
            /\ Parts(actTss, b) \cap Parts(rollTss, b) = {}

\* a stream request for (b, p) that the upstream has not answered
OutstandingStart(b, p) ==
    \E q \in pending : q.kind = "start" /\ q.bucket = b /\ q.vbno = p

NoDuplicate(ts) ==
    \A i, j \in DOMAIN ts.es : ts.es[i].vbno = ts.es[j].vbno => i = j

\* C2: at most one stream request is outstanding per (bucket, partition): no
\* Start, RestartVbuckets or AddBuckets issues StartVbStreams for a partition
\* whose earlier request is unanswered, and no partition is twice in reqTs[b].
C2_AtMostOneOutstanding ==
    [][/\ (pc = "loop" /\ pc' = "wait" /\ ctx.cmd \in StreamRequestCmds) =>
              \A p \in VbSet(ctx'.ts) : ~OutstandingStart(ctx'.bucket, p)
       /\ \A b \in DOMAIN reqTss' : NoDuplicate(reqTss'[b])]_vars

\* C3: a partition p enters actTs[b] only by a SUCCESS stream-request answer
\* for (b, p) that carries the opaque of the last stream request issued for
\* (b, p); a SUCCESS with the opaque of an earlier batch never makes p active.
C3_ActiveOnlyByLastOpaque ==
    \A p \in Parts(actTss, last.bucket) \ VbSet(last.preAct) :
        \/ /\ last.kind = "flush"
           /\ last.msg.kind = "controlStreamRequest"
           /\ last.msg.status = "SUCCESS"
           /\ last.msg.vbno = p
           /\ last.msg.opaque = lastOpaque[last.bucket][p]
        \/ /\ last.kind = "run"
           /\ p \in VbSet(last.a)
           /\ last.opaque = lastOpaque[last.bucket][p]

\* C4: every reconciler run eventually returns control to the actor loop,
\* whatever the producers post meanwhile; the actor is never blocked forever
\* on the back channel, also not while it puts set-aside messages back.
C4_ReconcilerReturns == (pc = "wait") ~> (pc \in {"loop", "stopped"})

\* C5: a message a reconciler set aside and put back is handled by the main
\* loop as the variant it was posted as: a set-aside SUCCESS answer for a
\* partition in reqTs moves it to actTs, a set-aside controlFinKVData of a
\* bucket with an empty actTs cleans the bucket up.
C5_FeedbackPreserved ==
    (last.kind = "flush" /\ last.msg.wrap > 0) =>
        /\ (/\ last.msg.kind = "controlStreamRequest"
            /\ last.msg.status = "SUCCESS"
            /\ last.msg.vbno \in VbSet(last.preReq))
               => last.msg.vbno \in Parts(actTss, last.bucket)
        /\ (/\ last.msg.kind = "controlFinKVData"
            /\ ~last.preAct.nil
            /\ TsLen(last.preAct) = 0)
               => ~HasKey(actTss, last.bucket)

\* C6: a Start whose reconciler timed out returns ErrorResponseTimeout, has
\* every partition answered SUCCESS in actTs[b] and every one answered
\* ROLLBACK in rollTs[b], and leaves exactly the unanswered partitions of the
\* batch in reqTs[b].
C6_TimedOutStart ==
    (StartRan /\ last.timedOut) =>
        /\ last.err = "ErrorResponseTimeout"
        /\ VbSet(last.a) \subseteq Parts(actTss, last.bucket)
        /\ VbSet(last.r) \subseteq Parts(rollTss, last.bucket)
        /\ Parts(reqTss, last.bucket) \cap VbSet(last.ts) = Unanswered

\* message m, as posted by the data path, answers the stream request of (b, p)
IsAnswer(m, b, p, st) ==
    /\ m.wrap = 0
    /\ m.kind = "controlStreamRequest"
    /\ m.bucket = b
    /\ m.vbno = p
    /\ m.status = st

\* p left reqTs[b] for actTs[b] (SUCCESS) or rollTs[b] (ROLLBACK)
Moved(b, p, st) ==
    /\ p \notin Parts(reqTss, b)
    /\ p \in Parts(IF st = "SUCCESS" THEN actTss ELSE rollTss, b)

\* C7 as stated: p is in reqTs[b] between two turns and a SUCCESS (ROLLBACK)
\* answer for (b, p) is on the back channel; then, unless a further client
\* command is dequeued, p eventually leaves reqTs[b] for actTs[b] (rollTs[b]).
C7_AsyncAnswerApplied ==
    \A b \in Buckets, p \in AllVbnos, st \in {"SUCCESS", "ROLLBACK"},
       k \in 0..MaxCmds :
        (/\ pc = "idle"
         /\ ncmds = k
         /\ p \in Parts(reqTss, b)
         /\ \E i \in DOMAIN backch : IsAnswer(backch[i], b, p, st))
            ~> (ncmds # k \/ Moved(b, p, st))

\* C7, amended: the same, provided the answer is the next message the main
\* loop takes off the back channel, so that no earlier back-channel event
\* (a stream end for p, a controlFinKVData of b) takes p out of reqTs[b] first.
C7_NextAnswerApplied ==
    \A b \in Buckets, p \in AllVbnos, st \in {"SUCCESS", "ROLLBACK"},
       k \in 0..MaxCmds :
        (/\ pc = "idle"
         /\ ncmds = k
         /\ p \in Parts(reqTss, b)
         /\ backch # <<>>
         /\ IsAnswer(Head(backch), b, p, st))
            ~> (ncmds # k \/ Moved(b, p, st))

\* the main loop just moved a partition, outstanding since a timed-out
\* command, from reqTs to actTs on an answer posted after the timeout
C7_Witness ==
    /\ pc = "idle"
    /\ last.kind = "flush"
    /\ IsAnswer(last.msg, last.bucket, last.msg.vbno, "SUCCESS")
    /\ last.msg.vbno \in VbSet(last.preReq)
    /\ Moved(last.bucket, last.msg.vbno, "SUCCESS")

\* C8: a Start in which every partition of the filtered request ts got its
\* feedback before the deadline: SUCCESS ones are in actTs[b], ROLLBACK ones
\* in rollTs[b] with the rollback seqno, the ones answered with a failure
\* status (and nothing else) in neither, and reqTs[b] holds none of ts and is
\* what it was before the call.
C8_AnsweredStart ==
    (StartRan /\ ~last.timedOut) =>
        LET b == last.bucket IN
        /\ VbSet(last.a) \subseteq Parts(actTss, b)
        /\ \A i \in DOMAIN last.r.es :
               /\ GetOk(MapGetTs(rollTss, b), last.r.es[i].vbno)
               /\ GetEntry(rollTss[b], last.r.es[i].vbno).seqno = last.r.es[i].seqno
        /\ \A p \in VbSet(last.f) \ (VbSet(last.a) \cup VbSet(last.r)) :
               p \notin Parts(actTss, b) /\ p \notin Parts(rollTss, b)
        /\ Parts(reqTss, b) \cap VbSet(last.ts) = {}
        /\ MapGetTs(reqTss, b).es = last.preReq.es

\* a Start over two partitions, one answered SUCCESS and one ROLLBACK
C8_Witness ==
    /\ StartRan
    /\ ~last.timedOut
    /\ TsLen(last.ts) = 2
    /\ TsLen(last.a) = 1
    /\ TsLen(last.r) = 1

\* C9: a Start in which every requested partition answered SUCCESS or
\* ROLLBACK before the deadline returns a nil error (the error of the call is
\* nil unless an earlier bucket of the request set it), and the rolled-back
\* partitions are in rollTs[b].
C9_RollbackIsNoError ==
    (StartRan /\ ~last.timedOut /\ VbSet(last.f) = {}) =>
        /\ last.err = ErrNil
        /\ (last.prevErr = ErrNil => ctx.err = ErrNil)
        /\ VbSet(last.r) \subseteq Parts(rollTss, last.bucket)

\* a Start answered without failure, with a ROLLBACK among the answers
C9_Witness ==
    /\ StartRan
    /\ ~last.timedOut
    /\ VbSet(last.f) = {}
    /\ TsLen(last.r) > 0
    /\ pc = "loop"
    /\ ctx.rest = <<>>
    /\ ctx.err = ErrNil

\* C10: when the deadline of a reconciler run fires before every expected
\* partition is accounted for, waitStreamRequests / waitStreamEnds return
\* ErrorResponseTimeout, also when a failure status was classified earlier.
C10_TimeoutError ==
    (last.kind = "run" /\ last.timedOut) => last.err = "ErrorResponseTimeout"

\* what a timestamp holds, whatever the order of its entries
Content(ts) == [nil |-> ts.nil, es |-> SeqToSet(ts.es)]

\* what a bucket -> timestamp map holds
MapContent(m) == [b \in DOMAIN m |-> Content(m[b])]

\* what a response tells the caller
ResponseContent ==
    [active   |-> {Content(t) : t \in topicResponse.ActiveTimestamps},
     rollback |-> {Content(t) : t \in topicResponse.RollbackTimestamps}]

\* C11: a Start that asks, for bucket b, only for partitions already in
\* actTs[b] (the cluster lookup and the feeder answering, neither failing
\* nor panicking) runs no reconciler,
\* issues no stream request, leaves what reqTss, actTss and rollTss hold and
\* feeders and kvdata as they were, has a nil error and the response it had
\* before.
C11_StartIdempotent ==
    [][(/\ pc = "loop"
        /\ ctx.cmd = "Start"
        /\ ctx.rest # <<>>
        /\ VbSet(Head(ctx.rest).ts) # {}
        /\ VbSet(Head(ctx.rest).ts) \subseteq Parts(actTss, Head(ctx.rest).bucket)
        /\ ctx' # ctx
        /\ last'.kind \notin {"fatal", "panic"})
       => /\ last'.kind = "run"
          /\ pending' = pending
          /\ MapContent(reqTss') = MapContent(reqTss)
          /\ MapContent(actTss') = MapContent(actTss)
          /\ MapContent(rollTss') = MapContent(rollTss)
          /\ feeders' = feeders
          /\ kvdata' = kvdata
          /\ last'.err = ErrNil
          /\ ctx'.err = ErrNil
          /\ ResponseContent' = ResponseContent]_vars

\* a Start of an active partition just ran
C11_Witness ==
    /\ StartRan
    /\ trip.cmd = "Start"
    /\ trip.req # {}
    /\ trip.req \subseteq VbSet(last.preAct)
    /\ last.err = ErrNil

\* a ShutdownVbuckets just finished the reconciler run of one bucket
ShutdownRan == last.kind = "run" /\ last.cmd = "ShutdownVbuckets"

\* the ShutdownVbuckets that just ran followed a Start on the same bucket and
\* partitions; every stream request of the Start and every stream end of the
\* ShutdownVbuckets was answered SUCCESS before the deadline
RoundTrip ==
    /\ ShutdownRan
    /\ trip.cmd = "Start"
    /\ trip.same
    /\ trip.ok
    /\ ~last.timedOut
    /\ VbSet(last.a) = VbSet(last.ts)
    /\ VbSet(last.f) = {}

\* C12 as stated: after Start(req) and then ShutdownVbuckets(req), all
\* answered SUCCESS, reqTs[b] and actTs[b] hold the partitions they held
\* before the Start.
C12_RoundTripRestores ==
    RoundTrip =>
        /\ Parts(reqTss, last.bucket) = trip.preReq
        /\ Parts(actTss, last.bucket) = trip.preAct

\* C12, amended: when the Start issued a stream request, and the
\* ShutdownVbuckets a stream end, for every partition of req, each partition
\* of req is in reqTs[b] and in actTs[b] exactly if it was before the Start
\* (which is: in neither).
C12_RoundTripRestoresRequested ==
    (RoundTrip /\ trip.issued = trip.req /\ VbSet(last.ts) = trip.req) =>
        /\ Parts(reqTss, last.bucket) \cap trip.req = trip.preReq \cap trip.req
        /\ Parts(actTss, last.bucket) \cap trip.req = trip.preAct \cap trip.req

\* a round trip over a partition that was started and then ended
C12_Witness ==
    /\ RoundTrip
    /\ trip.issued = trip.req
    /\ VbSet(last.ts) = trip.req
    /\ trip.req # {}

\* the instance ids a feed holds for bucket b
InstanceIds(engs, b) == IF b \in DOMAIN engs THEN DOMAIN engs[b] ELSE {}

\* an AddBuckets just went through bucket b, the command before it a
\* DelBuckets that named b
ReAdded ==
    /\ last.cmd = "AddBuckets"
    /\ last.kind \in {"run", "fatal"}
    /\ trip.cmd = "DelBuckets"
    /\ last.bucket \in trip.buckets

\* C13: DelBuckets(B) then AddBuckets(B, req) leaves, for a bucket b of B,
\* what AddBuckets leaves on a feed that held nothing for b, given the same
\* answers (r, a): the bucket's timestamps were absent or empty at the call,
\* actTs[b] is the union of nothing with a, rollTs[b] of nothing with r, the
\* instance ids of b are those of the request's subscribers, and feeder and
\* worker are there; when the cluster lookup or the feeder fails, neither
\* timestamps nor feeder nor worker are there.
C13_DelThenAddIsFreshAdd ==
    ReAdded =>
        LET b == last.bucket IN
        /\ IsEmpty(last.preReq) /\ IsEmpty(last.preAct) /\ IsEmpty(last.preRoll)
        /\ InstanceIds(engines, b) = InstanceIds(trip.fresh, b)
        /\ last.kind = "run" =>
              /\ HasKey(actTss, b) /\ HasKey(rollTss, b)
              /\ Content(actTss[b]) = Content(updateActTs(NilTs, last.a))
              /\ Content(rollTss[b]) = Content(updateRollTs(NilTs, last.r))
              /\ HasKey(feeders, b) /\ HasKey(kvdata, b)
        /\ last.kind = "fatal" =>
              /\ ~HasKey(actTss, b) /\ ~HasKey(rollTss, b)
              /\ ~HasKey(feeders, b) /\ ~HasKey(kvdata, b)

\* a bucket that was active is deleted and added again, and answers SUCCESS
C13_Witness ==
    /\ ReAdded
    /\ last.kind = "run"
    /\ VbSet(last.a) # {}

\* a bucket with an instance is deleted and added again with an instance
C13_WitnessInstances ==
    /\ ReAdded
    /\ last.kind = "run"
    /\ InstanceIds(engines, last.bucket) # {}

\* C14: when ShutdownVbuckets ran the reconciler for a known bucket b, the
\* partitions of reqTs[b], actTs[b] and rollTs[b] are those they held before
\* less the partitions confirmed with SUCCESS (endTs); a partition answered
\* with a failure status, or not answered before the deadline, stays where
\* it was.
C14_ShutdownRemovesConfirmed ==
    ShutdownRan =>
        LET b == last.bucket
            ended == VbSet(last.a)
        IN  /\ Parts(reqTss, b) = VbSet(last.preReq) \ ended
            /\ Parts(actTss, b) = VbSet(last.preAct) \ ended
            /\ Parts(rollTss, b) = VbSet(last.preRoll) \ ended

\* one active partition is ended with SUCCESS and another active one
\* answers with a failure status
C14_Witness ==
    /\ ShutdownRan
    /\ VbSet(last.a) \cap VbSet(last.preAct) # {}
    /\ VbSet(last.f) \cap VbSet(last.preAct) # {}

\* an active partition does not answer before the deadline
C14_WitnessUnanswered ==
    /\ ShutdownRan
    /\ last.timedOut
    /\ Unanswered \cap VbSet(last.preAct) # {}

\* the ShutdownVbuckets at hand names next a bucket that lacks one of reqTs,
\* actTs, rollTs
ShutdownUnknown ==
    /\ pc = "loop"
    /\ ctx.cmd = "ShutdownVbuckets"
    /\ ctx.rest # <<>>
    /\ \E m \in {reqTss, actTss, rollTss} : ~HasKey(m, Head(ctx.rest).bucket)

\* no stream end is handed to a feeder and timestamps, feeders, workers and
\* engines stay as they are
Untouched ==
    /\ pending' = pending
    /\ feedMaps' = feedMaps
    /\ engines' = engines

FinKVDataTaken ==
    /\ pc = "idle"
    /\ backch # <<>>
    /\ MsgType(Head(backch)) = "controlFinKVData"
    /\ last'.kind = "flush"

\* C16: when the main loop takes kvdataFin{b} and actTs[b] is empty, the
\* feeder and the worker of b are closed and gone from their maps (the
\* feeder's unanswered requests with it) and reqTs[b], actTs[b], rollTs[b]
\* are dropped, engines[b] staying as it is; when actTs[b] is not empty
\* nothing changes.
C16_FinKVData ==
    [][FinKVDataTaken =>
          LET b == Head(backch).bucket IN
          IF IsEmpty(MapGetTs(actTss, b))
          THEN /\ ~HasKey(feeders', b) /\ ~HasKey(kvdata', b)
               /\ ~HasKey(reqTss', b) /\ ~HasKey(actTss', b) /\ ~HasKey(rollTss', b)
               /\ \A q \in pending' : q.bucket # b
               /\ engines' = engines
          ELSE /\ feedMaps' = feedMaps /\ downstream' = downstream
               /\ pending' = pending]_vars

\* a subscriber set is malformed: an extraction fails, the two maps differ in
\* length, or an id is in one map and not in the other
Malformed(subs) ==
    \/ subs.evalErr
    \/ subs.routerErr
    \/ Cardinality(subs.evaluators) # Cardinality(subs.routers)
    \/ subs.evaluators # subs.routers

\* the step dequeues a Start, AddBuckets or AddInstances whose subscriber set
\* is malformed
MalformedRequest ==
    /\ pc = "idle"
    /\ pc' = "loop"
    /\ \E subs \in {s \in AllSubs : Malformed(s)}, et \in EtypesOf(world),
          env \in EndpointEnvs({}), req \in ReqLists, o \in Opaques :
            \/ start(et, subs, <<>>, env, req, o)
            \/ addBuckets(subs, <<>>, env, req, o)
            \/ addInstances(subs, <<>>, env)

\* C17: a Start, AddBuckets or AddInstances with a malformed subscriber set
\* returns InconsistentFeed, goes through no bucket and changes nothing: no
\* timestamp, feeder, worker, engine, endpoint or endpoint type, no request
\* to the upstream, nothing on the back channel.
C17_MalformedNoSideEffect ==
    [][MalformedRequest =>
          /\ ctx'.err = "ErrorInconsistentFeed"
          /\ ctx'.rest = <<>>
          /\ feedMaps' = feedMaps
          /\ engines' = engines
          /\ endpoints' = endpoints
          /\ endpointType' = endpointType
          /\ pending' = pending
          /\ backch' = backch]_vars

\* C18: after every turn of the actor, every address the router of an
\* installed engine advertises is a key of endpoints, also when the lookup of
\* an address or the endpoint factory failed during processSubscribers.
C18_EndpointIntegrity ==
    TurnOver =>
        \A b \in DOMAIN engines : \A u \in DOMAIN engines[b] :
            engines[b][u] \subseteq DOMAIN endpoints

\* C19: after every turn of the actor, a bucket with a partition in reqTs[b],
\* actTs[b] or rollTs[b] has a feeder in feeders.
C19_FeederPresence ==
    TurnOver =>
        \A b \in Buckets :
            (Parts(reqTss, b) \cup Parts(actTss, b) \cup Parts(rollTss, b)) # {}
                => HasKey(feeders, b)

\* a turn ends with partitions booked for a bucket
C19_Witness ==
    /\ TurnOver
    /\ \E b \in Buckets : Parts(actTss, b) # {} /\ Parts(reqTss, b) # {}
                           /\ HasKey(feeders, b)

\* C20: after every turn of the actor, the Shutdown turn too, a bucket with a
\* feeder in feeders has a worker in kvdata.
C20_DataPathPresence ==
    TurnOver => \A b \in DOMAIN feeders : HasKey(kvdata, b)

\* the partitions the batch just run got an answer for, whatever the status
Answered == VbSet(last.r) \cup VbSet(last.a) \cup VbSet(last.f)

\* C26: after RestartVbuckets ran the reconciler for bucket b, reqTs[b] holds
\* the partitions it held before and the partitions requested in this batch,
\* less the partitions answered in this batch, as after Start.
C26_RestartBookkeeping ==
    (last.kind = "run" /\ last.cmd = "RestartVbuckets") =>
        Parts(reqTss, last.bucket) =
            (VbSet(last.preReq) \cup VbSet(last.ts)) \ Answered

\* C27: an AddBuckets issues no stream request for a partition that is in
\* actTs[b], and the partitions outstanding before it that this batch did
\* not answer are still in reqTs[b].
C27_AddBucketsAsStart ==
    (last.kind = "run" /\ last.cmd = "AddBuckets") =>
        /\ VbSet(last.ts) \cap VbSet(last.preAct) = {}
        /\ (VbSet(last.preReq) \ Answered) \subseteq Parts(reqTss, last.bucket)

\* the step ends the iteration of a Start, RestartVbuckets or AddBuckets for
\* one bucket
BucketDone ==
    /\ pc \in {"loop", "requeue"}
    /\ ctx.cmd \in StreamRequestCmds
    /\ last'.kind \in {"run", "fatal"}

\* nothing is held for bucket b
Cleaned(b) ==
    /\ ~HasKey(reqTss, b) /\ ~HasKey(actTss, b) /\ ~HasKey(rollTss, b)
    /\ ~HasKey(feeders, b) /\ ~HasKey(kvdata, b)

\* C29: in a Start, RestartVbuckets or AddBuckets, a bucket whose topology
\* lookup or feeder fails is cleaned up and the loop goes on with the
\* buckets that follow it; the error of the command is then the error of
\* this bucket, and a bucket that ends without error leaves the error of the
\* buckets before it in place.
C29_LastErrorWins ==
    [][BucketDone =>
          /\ pc' = "loop"
          /\ ctx'.err = (IF last'.err # ErrNil THEN last'.err ELSE ctx.err)
          /\ last'.kind = "fatal" =>
                /\ last'.err \in {"ErrorClusterInfo", "ErrorFeeder"}
                /\ ~HasKey(reqTss', last'.bucket) /\ ~HasKey(actTss', last'.bucket)
                /\ ~HasKey(rollTss', last'.bucket)
                /\ ~HasKey(feeders', last'.bucket) /\ ~HasKey(kvdata', last'.bucket)
                /\ ctx'.rest = Tail(ctx.rest)]_vars

\* the second bucket of a request ends without error after the first one
\* failed: the command still has the first one's error
C29_Witness ==
    /\ last.kind = "run"
    /\ last.cmd \in StreamRequestCmds
    /\ last.err = ErrNil
    /\ last.prevErr \in {"ErrorClusterInfo", "ErrorFeeder"}
    /\ ctx.err = last.prevErr
    /\ Cleaned(CHOOSE b \in world.buckets : b # last.bucket)

\* two buckets of one request fail, each with its own error
C29_WitnessTwoErrors ==
    /\ last.kind = "fatal"
    /\ last.prevErr # ErrNil
    /\ last.prevErr # last.err
    /\ ctx.err = last.err

\* bucket b has in m2 what it has in m1
SameEntry(m1, m2, b) ==
    /\ HasKey(m1, b) <=> HasKey(m2, b)
    /\ HasKey(m1, b) => m1[b] = m2[b]

\* the step changes nothing of the buckets outside bs, nor the endpoints
Siblings(bs) ==
    /\ \A b \in Buckets \ bs :
          /\ SameEntry(reqTss, reqTss', b)
          /\ SameEntry(actTss, actTss', b)
          /\ SameEntry(rollTss, rollTss', b)
          /\ SameEntry(feeders, feeders', b)
          /\ SameEntry(kvdata, kvdata', b)
          /\ SameEntry(engines, engines', b)
    /\ endpoints' = endpoints

\* C30: a cleanupBucket(b), whether a failing bucket of Start, RestartVbuckets
\* or AddBuckets, a DelBuckets or a kvdataFin runs it, leaves the timestamps,
\* feeder, worker and engines of every other bucket and the endpoints as
\* they are.
C30_CleanupFrame ==
    [][/\ (BucketDone /\ last'.kind = "fatal") => Siblings({last'.bucket})
       /\ \A bs \in SUBSET world.buckets : delBuckets(bs) => Siblings(bs)
       /\ FinKVDataTaken => Siblings({Head(backch).bucket})]_vars

\* a bucket was cleaned while its sibling has a feeder and outstanding
\* partitions
C30_Witness ==
    /\ \/ last.kind = "fatal" /\ last.cmd \in StreamRequestCmds
       \/ ctx.cmd = "DelBuckets" /\ pc = "loop"
    /\ \E b \in world.buckets, s \in world.buckets :
          /\ b # s
          /\ Cleaned(b)
          /\ HasKey(feeders, s) /\ Parts(reqTss, s) # {}

\* C25: a RepairEndpoints in which the lookup or the factory fails for an
\* address answers with an error, and the addresses after the failing one
\* are still repaired.
C25_RepairReportsFailure ==
    [][\A raddrs \in SUBSET Raddrs :
          \A order \in Orders(raddrs), env \in EndpointEnvs(raddrs) :
              (repairEndpoints(order, env) /\ endpointsErr(endpoints, order, env))
                  => /\ ctx'.err # ErrNil
                     /\ \A a \in raddrs :
                           a \notin env.lookupBad \cup env.factoryBad
                               => a \in DOMAIN endpoints']_vars

\* C23: once Shutdown ran, every endpoint of the table has received exactly
\* one Close(), also an endpoint that the table holds under two addresses.
C23_EndpointClosedOnce ==
    finClosed => \A k \in DOMAIN endpoints : endpoints[k].closes = 1

\* the step in which the actor runs shutdown(), on a Shutdown command or in
\* the recovery of a panic
ShutdownStep == pc # "stopped" /\ pc' = "stopped"

\* C21: when shutdown() is over every feeder is closed, every worker is
\* closed and out of kvdata, every endpoint has been closed and the finish
\* channel is closed; shutdown() runs only while the finish channel is open
\* and the actor is gone afterwards, so the channel is closed at most once,
\* also when a panic is what ran it.
C21_ShutdownTearsDown ==
    [][/\ ShutdownStep =>
             /\ ~finClosed /\ finClosed'
             /\ \A b \in DOMAIN feeders : HasKey(feeders', b) /\ feeders'[b] = "closed"
             /\ DOMAIN kvdata' = {}
             /\ \A b \in DOMAIN kvdata : kvdata[b] = "run" => b \in kvfin'
             /\ DOMAIN endpoints' = DOMAIN endpoints
             /\ \A k \in DOMAIN endpoints' : endpoints'[k].closes >= 1
       /\ finClosed => (pc = "stopped" /\ pc' = "stopped" /\ finClosed')]_vars

\* Shutdown ran on a feed that had a feeder, a running worker and an endpoint
C21_Witness ==
    /\ pc = "stopped" /\ finClosed
    /\ ctx.cmd = "Shutdown"
    /\ \E b \in DOMAIN feeders : feeders[b] = "closed" /\ b \in kvfin
    /\ DOMAIN endpoints # {}

\* the recovery of a panic ran shutdown() on a feed that had a feeder and a
\* running worker
C21_WitnessPanic ==
    /\ pc = "stopped" /\ finClosed
    /\ last.kind = "panic"
    /\ \E b \in DOMAIN feeders : feeders[b] = "closed" /\ b \in kvfin

\* C22: once the actor has panicked in a command the finish channel is
\* closed, and the client that waits for the reply of that command gets its
\* call back with an error.
C22_PanicReleasesClients ==
    last.kind = "panic" => (finClosed /\ last.err = "ErrorClosed")

\* the actor is executing a command
InHand == pc \notin {"idle", "stopped"}

\* C24: a command is dequeued only when no command is in hand; while one is
\* in hand every step of the actor is a step of that command, up to the step
\* that sends its reply; the reply channel is empty until then, so the send
\* does not block, and holds exactly one reply afterwards.
C24_OneAtATime ==
    [][/\ ncmds' # ncmds =>
             /\ ~InHand /\ ctx.cmd = "none"
             /\ ncmds' = ncmds + 1
             /\ respch' = IF pc' = "stopped" THEN 1 ELSE 0
       /\ InHand =>
             /\ respch = 0
             /\ ncmds' = ncmds
             /\ ctx'.cmd = ctx.cmd \/ pc' \in {"idle", "stopped"}
             /\ pc' = "idle" => respch' = 1
             /\ pc' # "idle" => respch' = 0
       /\ (~InHand /\ ncmds' = ncmds) => (respch' = respch /\ ~InHand')
       /\ respch <= RespchSize]_vars

\* the second command of a feed has sent its reply, and the feed holds
\* partitions
C24_Witness ==
    /\ pc = "idle"
    /\ ncmds >= 2
    /\ respch = 1
    /\ \E b \in world.buckets : Parts(reqTss, b) \cup Parts(actTss, b) # {}

\* C28: a timestamp that a TopicResponse handed to a client points to is
\* not changed by a later turn of the actor.
C28_ResponseIsSnapshot ==
    [][\A h \in handed \cap handed' :
          LET m1 == IF h[1] = "act" THEN actTss ELSE rollTss
              m2 == IF h[1] = "act" THEN actTss' ELSE rollTss'
          IN  Content(m2[h[2]]) = Content(m1[h[2]])]_vars

\* a Start or a RestartVbuckets just finished the reconciler run of one bucket
StartOrRestartRan == last.kind = "run" /\ last.cmd \in {"Start", "Restart"}

\* the partitions of the last batch answered with a failure status only
FailedOnly == VbSet(last.f) \ (VbSet(last.a) \cup VbSet(last.r))

\* the error of a failure status
FailureError(status) ==
    IF status = "NOT_MY_VBUCKET" THEN "ErrorNotMyVbucket"
    ELSE "ErrorStreamRequest"

\* the reconciler of a Start or a RestartVbuckets takes a matching answer
\* that carries a failure status
FailureAnswered ==
    /\ ctx.cmd \in {"Start", "Restart"}
    /\ pc = "wait"
    /\ backch # <<>>
    /\ matchStreamRequest(Head(backch))
    /\ Head(backch).status \notin {"SUCCESS", "ROLLBACK"}
    /\ waitOnFeedbackRecv

C32_DelBucketsClears ==
    [][\A bs \in SUBSET world.buckets :
          delBuckets(bs) =>
              /\ ctx'.err = ErrNil
              /\ \A b \in bs :
                     /\ ~HasKey(reqTss', b) /\ ~HasKey(actTss', b)
                     /\ ~HasKey(rollTss', b) /\ ~HasKey(engines', b)
                     /\ ~HasKey(feeders', b) /\ ~HasKey(kvdata', b)
                     /\ Running(b) => b \in kvfin'
                     /\ HasKey(feeders, b) =>
                            \A q \in pending' : q.bucket # b
              /\ endpoints' = endpoints]_vars

\* a DelBuckets just closed the running worker of one of its buckets and
\* dropped the bucket's feeder and timestamps
C32_Witness ==
    /\ pc = "loop"
    /\ ctx.cmd = "DelBuckets"
    /\ ctx.err = ErrNil
    /\ trip.cmd = "DelBuckets"
    /\ \E b \in trip.buckets :
           /\ b \in kvfin
           /\ ~HasKey(kvdata, b) /\ ~HasKey(feeders, b) /\ ~HasKey(reqTss, b)

\* the main loop takes a message of type t from the back channel
BackchTaken(t) ==
    /\ pc = "idle"
    /\ backch # <<>>
    /\ MsgType(Head(backch)) = t
    /\ genServerBackch

\* the message at the head of the back channel is about a partition that
\* reqTs of its bucket holds
Expected == GetOk(MapGetTs(reqTss, Head(backch).bucket), Head(backch).vbno)

\* C33: a controlStreamRequest taken by the main loop for a partition that
\* reqTs of its bucket does not hold (the bucket may have no state at all) is
\* dropped: reqTss, actTss, rollTss, feeders and kvdata are what they were and
\* the gen-server is still serving.
C33_UnexpectedDropped ==
    [][(BackchTaken("controlStreamRequest") /\ ~Expected) =>
          /\ reqTss' = reqTss /\ actTss' = actTss /\ rollTss' = rollTss
          /\ feeders' = feeders /\ kvdata' = kvdata
          /\ pc' = "idle" /\ finClosed' = finClosed]_vars

\* the main loop just dropped a SUCCESS for a partition of a bucket that has
\* state, the partition not being outstanding
C33_Witness ==
    /\ last.kind = "flush"
    /\ MsgType(last.msg) = "controlStreamRequest"
    /\ last.msg.status = "SUCCESS"
    /\ last.preKeys
    /\ last.msg.vbno \notin VbSet(last.preReq)
    /\ pc = "idle"

\* the main loop just dropped a SUCCESS for a bucket that has no state
C33_WitnessNoState ==
    /\ last.kind = "flush"
    /\ MsgType(last.msg) = "controlStreamRequest"
    /\ last.msg.status = "SUCCESS"
    /\ ~HasKey(reqTss, last.bucket) /\ ~HasKey(actTss, last.bucket)
    /\ pc = "idle"

\* C34: a controlStreamRequest taken by the main loop for a partition that
\* reqTs of its bucket holds removes the partition from reqTs[b]; it adds the
\* partition to rollTs[b] on ROLLBACK and leaves rollTs[b] alone otherwise, it
\* adds the partition to actTs[b] on SUCCESS and leaves actTs[b] alone
\* otherwise.
C34_ExpectedMoved ==
    [][(BackchTaken("controlStreamRequest") /\ Expected) =>
          LET b  == Head(backch).bucket
              p  == Head(backch).vbno
              st == Head(backch).status
          IN  /\ p \notin Parts(reqTss', b)
              /\ IF st = "ROLLBACK"
                 THEN p \in Parts(rollTss', b)
                 ELSE rollTss' = rollTss
              /\ IF st = "SUCCESS"
                 THEN p \in Parts(actTss', b)
                 ELSE actTss' = actTss]_vars

\* the main loop just took a NOT_MY_VBUCKET for an outstanding partition,
\* which is now in none of the three timestamps
C34_Witness ==
    /\ last.kind = "flush"
    /\ MsgType(last.msg) = "controlStreamRequest"
    /\ last.msg.status = "NOT_MY_VBUCKET"
    /\ last.msg.vbno \in VbSet(last.preReq)
    /\ last.msg.vbno \notin Parts(reqTss, last.bucket)
    /\ last.msg.vbno \notin Parts(actTss, last.bucket)
    /\ last.msg.vbno \notin Parts(rollTss, last.bucket)

\* C35: a controlStreamEnd taken by the main loop removes its partition from
\* reqTs[b], actTs[b] and rollTs[b]; every other partition of b and every
\* partition of another bucket is in a timestamp after the step exactly if it
\* was before.
C35_StreamEndRemovesOne ==
    [][BackchTaken("controlStreamEnd") =>
          \A b \in Buckets, p \in AllVbnos :
              IF b = Head(backch).bucket /\ p = Head(backch).vbno
              THEN /\ p \notin Parts(reqTss', b)
                   /\ p \notin Parts(actTss', b)
                   /\ p \notin Parts(rollTss', b)
              ELSE /\ (p \in Parts(reqTss', b)) = (p \in Parts(reqTss, b))
                   /\ (p \in Parts(actTss', b)) = (p \in Parts(actTss, b))
                   /\ (p \in Parts(rollTss', b)) = (p \in Parts(rollTss, b))]_vars

\* the main loop just took a controlStreamEnd for an active partition while
\* another partition of the bucket stays active
C35_Witness ==
    /\ last.kind = "flush"
    /\ MsgType(last.msg) = "controlStreamEnd"
    /\ last.msg.vbno \in VbSet(last.preAct)
    /\ last.msg.vbno \notin Parts(actTss, last.bucket)
    /\ Parts(actTss, last.bucket) # {}

\* C36: the step in which RestartVbuckets is taken up repairs the endpoints
\* of every address of the table and hands no stream request to a feeder,
\* whatever the request lists (nothing included); the later steps of the
\* turn, which hand the stream requests to the feeders, leave the endpoints
\* as the repair left them.
C36_RepairFirst ==
    [][/\ (pc = "idle" /\ ncmds' # ncmds /\ ctx'.cmd = "RestartVbuckets") =>
             \A order \in Orders(DOMAIN endpoints),
                env \in EndpointEnvs(DOMAIN endpoints) :
                 restartVbuckets(order, env, ctx'.rest, ctx'.opaque) =>
                     /\ endpoints' = startEndpoints(endpoints, order, env)
                     /\ pending' = pending
       /\ (ctx.cmd = "RestartVbuckets" /\ pending' \ pending # {})
              => endpoints' = endpoints]_vars

\* a RestartVbuckets that lists no bucket, the second command of the feed,
\* replaced the one endpoint of the table, which did not answer the ping
C36_Witness ==
    /\ pc = "loop"
    /\ ctx.cmd = "RestartVbuckets"
    /\ ctx.rest = <<>>
    /\ ncmds = 2
    /\ pending = {}
    /\ \E a \in DOMAIN endpoints :
           DOMAIN endpoints = {a} /\ endpoints[a].id = 2

\* what a reconciler run that expects the partition of answer v records for it
ReconcilerRecords(v) ==
    classifyStreamRequest([NoCtx EXCEPT !.a = NewTsVbuuid, !.r = NewTsVbuuid,
                                        !.f = NewTsVbuuid,
                                        !.vbnos = <<v.vbno>>], v)

\* C37: when the main loop took a SUCCESS (ROLLBACK) for an outstanding
\* partition of bucket b, actTs[b] (rollTs[b]) holds what it would hold had a
\* reconciler run taken the same answer: the same partitions with the same
\* seqno, branch, start and end.
C37_SameEntryEitherPath ==
    (/\ last.kind = "flush"
     /\ MsgType(last.msg) = "controlStreamRequest"
     /\ GetOk(last.preReq, last.msg.vbno)
     /\ last.msg.status \in {"SUCCESS", "ROLLBACK"}) =>
        LET v == last.msg
            b == last.bucket
            c == ReconcilerRecords(v)
        IN  /\ v.status = "SUCCESS" =>
                   Content(MapGetTs(actTss, b))
                       = Content(updateActTs(last.preAct, c.a))
            /\ v.status = "ROLLBACK" =>
                   Content(MapGetTs(rollTss, b))
                       = Content(updateRollTs(last.preRoll, c.r))

\* reqTss, actTss and rollTss have the same buckets
SameKeys == DOMAIN reqTss = DOMAIN actTss /\ DOMAIN actTss = DOMAIN rollTss

\* C38: after every turn of the actor reqTss, actTss and rollTss have the
\* same buckets, and a controlStreamEnd or controlStreamRequest the main loop
\* took for a bucket without entries left the bucket without entries.
C38_SameKeySets ==
    /\ TurnOver => SameKeys
    /\ (/\ last.kind = "flush"
        /\ MsgType(last.msg) \in {"controlStreamRequest", "controlStreamEnd"}
        /\ ~last.preKeys) =>
           /\ ~HasKey(reqTss, last.bucket)
           /\ ~HasKey(actTss, last.bucket)
           /\ ~HasKey(rollTss, last.bucket)

\* the first half of C38 alone
C38_KeysAgree == TurnOver => SameKeys

\* C40: an AddInstances whose subscribers are well formed answers nil or
\* ErrorInvalidBucket, and ErrorInvalidBucket only if a bucket of one of its
\* evaluators has no data-path worker; engines the feed keeps for another
\* bucket do not make it fail.
C40_InvalidBucketIsNamed ==
    [][(pc = "idle" /\ ncmds' # ncmds /\ ctx'.cmd = "AddInstances") =>
          \A subs \in SubsOf(world) :
              \A order \in Orders(Advertised(subs)),
                 env \in EndpointEnvs(Advertised(subs)) :
                  (addInstances(subs, order, env) /\ subscribers(subs) = ErrNil)
                      => /\ ctx'.err \in {ErrNil, "ErrorInvalidBucket"}
                         /\ ctx'.err = "ErrorInvalidBucket" =>
                                \E u \in subs.evaluators :
                                    ~HasKey(kvdata, EvalBucket(u))]_vars

\* the main loop just cleaned a bucket whose worker exited, and the engines
\* of the bucket are still there
C40_SelfCleaned ==
    /\ last.kind = "flush"
    /\ MsgType(last.msg) = "controlFinKVData"
    /\ last.preKeys
    /\ ~HasKey(actTss, last.bucket) /\ ~HasKey(kvdata, last.bucket)
    /\ HasKey(engines, last.bucket)

\* no partition has two entries in ts
OncePerPartition(ts) == TsLen(ts) = Cardinality(VbSet(ts))

\* C39: when a reconciler run is over, no partition is in more than one of
\* its results rollTs', failTs' and actTs' (endTs and failTs for stream ends)
\* and none has two entries in one of them, also when two matching answers
\* for one (opaque, bucket, partition) reached the run.
C39_ClassifiedOnce ==
    last.kind = "run" =>
        /\ VbSet(last.r) \cap VbSet(last.f) = {}
        /\ VbSet(last.r) \cap VbSet(last.a) = {}
        /\ VbSet(last.f) \cap VbSet(last.a) = {}
        /\ OncePerPartition(last.r)
        /\ OncePerPartition(last.f)
        /\ OncePerPartition(last.a)

====
